---- MODULE Spec2Model ----
(***************************************************************************)
(* Backup manager of the MCP SQL Server tools: the content store, the      *)
(* backup log, createBackup with its count-based eviction, cleanupByAge    *)
(* and the read operations, together with the configuration provider.     *)
(*                                                                         *)
(* Time is counted in clock ticks (one tick stands for a millisecond);     *)
(* TicksPerSecond ticks make the second that file names are stamped with   *)
(* and TicksPerDay ticks make a day of cleanupByAge.                       *)
(***************************************************************************)
EXTENDS Integers, Sequences, FiniteSets, TLC

(* ------------------------------ bounds --------------------------------- *)

MaxTime == 1
TicksPerSecond == 1
TicksPerDay == 1
MaxCalls == 3
MaxCap == 1
MaxDays == 1
MaxRandom == 1
MaxTextLen == 4
MaxLoopLen == 3
MaxDefLen == 6
MaxListed == 3
RuleLen == 1

(* ------------------------------ inputs --------------------------------- *)

\* Object names are sequences of characters: "A" and "a" are one object
\* ignoring case, "B" is another object.
ObjectNames == {<<"A">>, <<"a">>, <<"B">>}
ObjectTypes == {"VIEW"}
Definitions == {<<"d1">>}
Operations == {"ALTER"}
SchemaName == "dbo"
Database == "db"
RandomSuffixes == 0..MaxRandom

(* --------------------------- configuration ----------------------------- *)

\* DEFAULT_CONFIG.backup, with the cap scaled to the model's bound.
DEFAULT_CONFIG == [enabled |-> TRUE, max_backups_per_object |-> MaxCap, auto_cleanup |-> TRUE]

\* What .mcp-sqlserver.json can merge to.
Configs ==
  {DEFAULT_CONFIG}
    \cup {[enabled |-> FALSE, max_backups_per_object |-> MaxCap, auto_cleanup |-> TRUE]}
    \cup {[enabled |-> TRUE, max_backups_per_object |-> MaxCap, auto_cleanup |-> FALSE]}
    \cup {[enabled |-> TRUE, max_backups_per_object |-> k, auto_cleanup |-> TRUE] :
            k \in 0..MaxCap}

VARIABLES
  now,            \* the system clock, in ticks
  cfgFile,        \* what .mcp-sqlserver.json merges to at this moment
  currentConfig,  \* mcpConfig's module variable
  configLoaded,   \* mcpConfig's module variable
  dirs,           \* the directories that exist under the project root
  files,          \* the content files: path -> content
  logFile,        \* backup_log.json: [kind, backups]
  ret,            \* the last call of the backup manager and what it returned
  oldText,        \* generateDiff's first argument
  newText,        \* generateDiff's second argument
  diffResult,     \* what generateDiff returned for them, once called
  formatArgs,     \* the arguments of a formatBackupContent
  backupText,     \* the text it gave, as extractDefinitionFromBackup receives it
  extracted,      \* what extractDefinitionFromBackup returned for that text
  got,            \* the last call of a reading operation: its arguments and result
  executed,       \* the mutating statements sent to the database, in order
  tool,           \* the last call of an alter or drop tool: its number, name and outcome
  loop,           \* the while loop of backtrack in a generateDiff that is running
  writers         \* the createBackup calls that are followed step by step

\* The arguments and results of the functions that are called on their own.
diffVars == <<oldText, newText, diffResult, loop>>
extractVars == <<formatArgs, backupText, extracted>>
toolVars == <<executed, tool>>
pureVars == <<diffVars, extractVars, got, toolVars, writers>>

vars == <<now, cfgFile, currentConfig, configLoaded, dirs, files, logFile, ret, pureVars>>

\* A run is MaxCalls calls of the backup manager, with the environment acting
\* before and between them.
Running == ret.n < MaxCalls

\* getConfig: loads the file on the first access only.
getConfig == IF configLoaded THEN currentConfig ELSE cfgFile

getBackupConfig == getConfig

\* The effect of getConfig on the module variables.
ConfigRead == /\ configLoaded' = TRUE
              /\ currentConfig' = getConfig

(* ----------------------------- strings --------------------------------- *)

toLowerCaseChar(c) == CASE c = "A" -> "a" [] c = "B" -> "b" [] OTHER -> c

toLowerCase(s) == [i \in DOMAIN s |-> toLowerCaseChar(s[i])]

toUpperCase(t) == CASE t = "view" -> "VIEW" [] t = "procedure" -> "PROCEDURE" [] OTHER -> t

WordChars == {"A", "a", "B", "b", "_"}

\* objectName.replace(/[^a-zA-Z0-9_]/g, '_')
sanitize(s) == [i \in DOMAIN s |-> IF s[i] \in WordChars THEN s[i] ELSE "_"]

(* --------------------------- content store ----------------------------- *)

SubDirs == <<"procedures", "functions", "views", "triggers", "tables", "other">>

\* The order in which ensureBackupDirs creates what is missing.
DirOrder == <<"root">> \o SubDirs

AllDirs == {DirOrder[i] : i \in DOMAIN DirOrder}

getObjectTypeDir(objectType) ==
  LET t == toUpperCase(objectType)
  IN CASE t \in {"PROCEDURE", "SQL_STORED_PROCEDURE"} -> "procedures"
       [] t \in {"FUNCTION", "SQL_SCALAR_FUNCTION", "SQL_TABLE_VALUED_FUNCTION",
                 "SQL_INLINE_TABLE_VALUED_FUNCTION"} -> "functions"
       [] t = "VIEW" -> "views"
       [] t \in {"TRIGGER", "SQL_TRIGGER"} -> "triggers"
       [] t \in {"TABLE", "USER_TABLE"} -> "tables"
       [] OTHER -> "other"

\* The second a clock reading falls in: toISOString() cut at the dot.
SecondOf(t) == t \div TicksPerSecond

generateBackupId(t, random) == <<"bkp", t, random>>

generateBackupFilename(objectName, objectType, t) ==
  [dir |-> getObjectTypeDir(objectType), name |-> sanitize(objectName), stamp |-> SecondOf(t)]

\* UTF8_BOM + header + definition
formatBackupContent(objectName, objectType, schemaName, definition, operation, database, t) ==
  [bom |-> TRUE,
   header |-> [Objeto |-> objectName, Tipo |-> objectType, Schema |-> schemaName,
               Fecha |-> SecondOf(t), Operacion |-> operation, BaseDatos |-> database],
   definition |-> definition]

\* sha256 is taken to be injective: the digest of a text stands for the text.
calculateHash(content) == <<"sha256", content>>

existsSync(fs, path) == path \in DOMAIN fs

writeFile(fs, path, content) == (path :> content) @@ fs

unlinkSync(fs, path) == [p \in DOMAIN fs \ {path} |-> fs[p]]

(* ------------------------------ the log -------------------------------- *)

EmptyLog == <<>>

\* loadBackupLog: a missing file, a read error and unparsable text all give
\* a fresh log; anything JSON.parse accepts is returned as it is, so a "nolist"
\* file yields a value without a backups array (NoList).
NoList == "undefined"

loadBackupLog(readFails) ==
  CASE logFile.kind = "missing" -> EmptyLog
    [] readFails -> EmptyLog
    [] logFile.kind = "garbage" -> EmptyLog
    [] logFile.kind = "nolist" -> NoList
    [] OTHER -> logFile.backups

\* saveBackupLog: writeFileSync truncates and then writes, so a failure leaves
\* the file as it was (the open failed) or cut short (the write failed).
saveBackupLog(backups, save) ==
  CASE save = "ok" -> [kind |-> "log", backups |-> backups]
    [] save = "openFails" -> logFile
    [] OTHER -> [kind |-> "garbage", backups |-> <<>>]

SaveOutcomes == {"ok", "openFails", "writeFails"}

RemoveAt(s, i) == SubSeq(s, 1, i - 1) \o SubSeq(s, i + 1, Len(s))

\* log.backups.findIndex((b) => b.id === id): 0 stands for -1.
findIndex(backups, id) ==
  IF \E i \in DOMAIN backups : backups[i].id = id
  THEN CHOOSE i \in DOMAIN backups :
         /\ backups[i].id = id
         /\ \A j \in DOMAIN backups : backups[j].id = id => i <= j
  ELSE 0

\* A filter that lets every entry through, of whatever object.
AnyObject(b, objectName) == TRUE

SameObject(b, objectName) == toLowerCase(b.object_name) = toLowerCase(objectName)

Matching(backups, objectName) == SelectSeq(backups, LAMBDA b : SameObject(b, objectName))

\* slice(maxBackups + 1): one entry too many survives.
SliceFromNext(s, k) == IF k + 1 >= Len(s) THEN <<>> ELSE SubSeq(s, k + 2, Len(s))

\* slice(maxBackups) of a list
SliceFrom(s, k) == IF k >= Len(s) THEN <<>> ELSE SubSeq(s, k + 1, Len(s))

\* A loop body whose catch drops the entry all the same.
EvictStepDropsAnyway(backup, st, undel) ==
  LET path == backup.backup_file
      index == findIndex(st.backups, backup.id)
      dropped == IF index # 0 THEN RemoveAt(st.backups, index) ELSE st.backups
  IN IF existsSync(st.files, path) /\ path \in undel
     THEN [backups |-> dropped, files |-> st.files, failed |-> st.failed \cup {path}]
     ELSE [backups |-> dropped, files |-> unlinkSync(st.files, path), failed |-> st.failed]

\* The body of cleanupOldBackups' loop for one element of toRemove, on the
\* loop's state st = [backups, files, failed]. undel is the set of paths on which
\* unlinkSync throws during this call; the catch keeps the entry.
EvictStep(backup, st, undel) ==
  LET path == backup.backup_file
      index == findIndex(st.backups, backup.id)
  IN IF existsSync(st.files, path) /\ path \in undel
     THEN [st EXCEPT !.failed = @ \cup {path}]
     ELSE [backups |-> IF index # 0 THEN RemoveAt(st.backups, index) ELSE st.backups,
           files |-> unlinkSync(st.files, path),
           failed |-> st.failed]

RECURSIVE EvictLoop(_, _, _)
EvictLoop(toRemove, st, undel) ==
  IF toRemove = <<>> THEN st
  ELSE EvictLoop(Tail(toRemove), EvictStep(Head(toRemove), st, undel), undel)

cleanupOldBackups(backups, fs, objectName, maxBackups, undel) ==
  LET objectBackups == Matching(backups, objectName)
  IN IF Len(objectBackups) > maxBackups
     THEN EvictLoop(SliceFrom(objectBackups, maxBackups),
                    [backups |-> backups, files |-> fs, failed |-> {}], undel)
     ELSE [backups |-> backups, files |-> fs, failed |-> {}]

(* ---------------------------- createBackup ----------------------------- *)

\* null, where an entry is expected.
null == [id |-> <<>>]

\* The record of a call: its number and operation; what it met (fault, readFailed,
\* failed: the paths whose deletion threw; days); what it gave back (threw,
\* success, backup_id, backup_file, removed); and, for a createBackup that
\* succeeded, the entry it built and the text its content file held once written.
Call(op) ==
  [n |-> ret.n + 1, op |-> op, fault |-> "none", readFailed |-> FALSE, failed |-> {},
   days |-> 0, threw |-> FALSE, success |-> FALSE, backup_id |-> "", backup_file |-> "",
   removed |-> 0, entry |-> null, wrote |-> ""]

\* A failure result that still names the content file.
FailureResultNamingFile(call, fault) ==
  [call EXCEPT !.fault = fault, !.success = FALSE, !.backup_id = "",
               !.backup_file = "other"]

\* The result createBackup returns when disabled and from its catch block.
FailureResult(call, fault) ==
  [call EXCEPT !.fault = fault, !.success = FALSE, !.backup_id = "", !.backup_file = ""]

\* The result createBackup returns at the end of its try block.
SuccessResult(call, backupId, backupFilename) ==
  [call EXCEPT !.success = TRUE, !.backup_id = backupId, !.backup_file = backupFilename]

\* ensureBackupDirs stopped by a failing mkdirSync at the k-th directory.
DirsUpTo(k) == dirs \cup {DirOrder[i] : i \in 1..(k - 1)}

\* A disabled createBackup that has made the directories before it looks at
\* the configuration.
CreateBackupDisabledAfterDirs ==
  /\ ~getBackupConfig.enabled
  /\ ConfigRead
  /\ dirs' = AllDirs
  /\ ret' = [Call("createBackup") EXCEPT !.fault = "disabled"]
  /\ UNCHANGED <<now, cfgFile, files, logFile>>

CreateBackupDisabled ==
  /\ ~getBackupConfig.enabled
  /\ ConfigRead
  /\ ret' = FailureResult(Call("createBackup"), "disabled")
  /\ UNCHANGED <<now, cfgFile, dirs, files, logFile>>

CreateBackupMkdirFails ==
  /\ getBackupConfig.enabled
  /\ ConfigRead
  /\ \E k \in DOMAIN DirOrder :
       /\ DirOrder[k] \notin dirs
       /\ dirs' = DirsUpTo(k)
  /\ ret' = FailureResult(Call("createBackup"), "mkdir")
  /\ UNCHANGED <<now, cfgFile, files, logFile>>

CreateBackupWriteFails ==
  /\ getBackupConfig.enabled
  /\ ConfigRead
  /\ dirs' = AllDirs
  /\ ret' = FailureResult(Call("createBackup"), "write")
  /\ UNCHANGED <<now, cfgFile, files, logFile>>

\* An entry whose digest is taken of the text without its byte-order marker.
NewEntryHashingWithoutBom(backupId, objectName, objectType, operation, backupFilename, content) ==
  [id |-> backupId,
   timestamp |-> now,
   operation |-> operation,
   object_type |-> objectType,
   object_name |-> objectName,
   schema_name |-> SchemaName,
   database |-> Database,
   backup_file |-> backupFilename,
   file_hash |-> calculateHash([content EXCEPT !.bom = FALSE]),
   success |-> TRUE]

\* The entry createBackup builds; content is the text it wrote.
NewEntry(backupId, objectName, objectType, operation, backupFilename, content) ==
  [id |-> backupId,
   timestamp |-> now,
   operation |-> operation,
   object_type |-> objectType,
   object_name |-> objectName,
   schema_name |-> SchemaName,
   database |-> Database,
   backup_file |-> backupFilename,
   file_hash |-> calculateHash(content),
   success |-> TRUE]

\* push instead of unshift: the entry goes to the end.
Push(entry, backups) == Append(backups, entry)

\* log.backups.unshift(entry)
Unshift(entry, backups) == <<entry>> \o backups

\* createBackup from the write of the content file on.
CreateBackupWrites(objectName, objectType, definition, operation, random, readFails, save, undel) ==
  LET config == getBackupConfig
      backupId == generateBackupId(now, random)
      backupFilename == generateBackupFilename(objectName, objectType, now)
      content == formatBackupContent(objectName, objectType, SchemaName, definition,
                                     operation, Database, now)
      written == writeFile(files, backupFilename, content)
      log == loadBackupLog(readFails)
      entry == NewEntry(backupId, objectName, objectType, operation, backupFilename, content)
      call == [Call("createBackup") EXCEPT !.readFailed = readFails]
  IN /\ config.enabled
     /\ ConfigRead
     /\ dirs' = AllDirs
     /\ UNCHANGED <<now, cfgFile>>
     /\ IF log = NoList
        THEN \* log.backups.unshift throws a TypeError, caught by createBackup
             /\ undel = {}
             /\ files' = written
             /\ logFile' = logFile
             /\ ret' = FailureResult(call, "nolist")
        ELSE LET unshifted == Unshift(entry, log)
                 cleaned == IF config.auto_cleanup
                            THEN cleanupOldBackups(unshifted, written, objectName,
                                                   config.max_backups_per_object, undel)
                            ELSE [backups |-> unshifted, files |-> written, failed |-> {}]
                 met == [call EXCEPT !.failed = cleaned.failed,
                                     !.removed = Len(unshifted) - Len(cleaned.backups)]
             IN /\ cleaned.failed = undel
                /\ files' = cleaned.files
                /\ logFile' = saveBackupLog(cleaned.backups, save)
                /\ ret' = IF save = "ok"
                          THEN [SuccessResult(met, backupId, backupFilename) EXCEPT
                                  !.entry = entry, !.wrote = written[backupFilename]]
                          ELSE FailureResult(met, "save")

\* What can go wrong reading the log: the file is there and readFileSync throws.
ReadOutcomes == IF logFile.kind \in {"log", "nolist"} THEN BOOLEAN ELSE {FALSE}

\* Math.random().toString(36).substring(2, 8): a draw from the suffixes. The ids
\* are collision-resistant by convention: a draw that repeats an id of the log
\* within the same clock reading is left out, and every other draw is possible.
FreshSuffixes ==
  {random \in RandomSuffixes :
     \A i \in DOMAIN logFile.backups : logFile.backups[i].id # generateBackupId(now, random)}

\* The paths cleanupOldBackups may try to delete.
EvictionPaths(objectName, objectType, readFails) ==
  LET log == loadBackupLog(readFails)
      config == getBackupConfig
      path == generateBackupFilename(objectName, objectType, now)
      objectBackups == IF log = NoList THEN <<>> ELSE Matching(log, objectName)
  IN IF config.auto_cleanup
     THEN {path} \cup {objectBackups[i].backup_file : i \in DOMAIN objectBackups}
     ELSE {}

\* createBackup, called with arguments from the sets given.
createBackup(objectNames, objectTypes, definitions, operations) ==
  \/ CreateBackupDisabled
  \/ CreateBackupMkdirFails
  \/ CreateBackupWriteFails
  \/ \E objectName \in objectNames, objectType \in objectTypes, definition \in definitions,
        operation \in operations, readFails \in ReadOutcomes, save \in SaveOutcomes :
       \E random \in (IF save = "ok" THEN FreshSuffixes ELSE {0}),
          undel \in SUBSET EvictionPaths(objectName, objectType, readFails) :
         CreateBackupWrites(objectName, objectType, definition, operation, random,
                            readFails, save, undel)

CreateBackup ==
  /\ Running
  /\ UNCHANGED pureVars
  /\ createBackup(ObjectNames, ObjectTypes, Definitions, Operations)

(* ---------------------------- cleanupByAge ----------------------------- *)

\* cutoffDate.setDate(cutoffDate.getDate() - days)
CutoffDate(days) == now - days * TicksPerDay

\* A comparison that takes the entry at the cutoff too.
IsOlderOrAt(backup, cutoffDate) == backup.timestamp <= cutoffDate

\* backupDate < cutoffDate
IsOlder(backup, cutoffDate) == backup.timestamp < cutoffDate

\* The body of cleanupByAge's loop for one entry, on the loop's state
\* st = [backups (toKeep), files, removed, failed].
AgeStep(backup, cutoffDate, st, undel) ==
  LET path == backup.backup_file
  IN IF IsOlder(backup, cutoffDate)
     THEN IF existsSync(st.files, path) /\ path \in undel
          THEN [st EXCEPT !.backups = Append(@, backup), !.failed = @ \cup {path}]
          ELSE [st EXCEPT !.files = unlinkSync(@, path), !.removed = @ + 1]
     ELSE [st EXCEPT !.backups = Append(@, backup)]

RECURSIVE AgeLoop(_, _, _, _)
AgeLoop(rest, cutoffDate, st, undel) ==
  IF rest = <<>> THEN st
  ELSE AgeLoop(Tail(rest), cutoffDate, AgeStep(Head(rest), cutoffDate, st, undel), undel)

CleanupByAge(days, readFails, save, undel) ==
  LET log == loadBackupLog(readFails)
  IN /\ UNCHANGED <<now, cfgFile, currentConfig, configLoaded, dirs>>
     /\ IF log = NoList
        THEN \* iterating log.backups throws a TypeError
             /\ ret' = [Call("cleanupByAge") EXCEPT !.days = days, !.threw = TRUE,
                                                   !.readFailed = readFails,
                                                   !.fault = "nolist"]
             /\ UNCHANGED <<files, logFile>>
        ELSE LET done == AgeLoop(log, CutoffDate(days),
                                 [backups |-> <<>>, files |-> files, removed |-> 0,
                                  failed |-> {}], undel)
                 \* the log file is under the backup root: without it the save throws
                 outcome == IF "root" \in dirs THEN save ELSE "openFails"
             IN /\ done.failed = undel
                /\ files' = done.files
                /\ logFile' = saveBackupLog(done.backups, outcome)
                /\ ret' = [Call("cleanupByAge") EXCEPT
                             !.days = days,
                             !.readFailed = readFails,
                             !.failed = done.failed,
                             !.fault = IF outcome = "ok" THEN "none" ELSE "save",
                             !.threw = (outcome # "ok"),
                             !.removed = IF outcome = "ok" THEN done.removed ELSE 0]

\* The paths cleanupByAge may try to delete.
AgedPaths(days, readFails) ==
  LET log == loadBackupLog(readFails)
  IN IF log = NoList THEN {}
     ELSE {log[i].backup_file : i \in {j \in DOMAIN log : IsOlder(log[j], CutoffDate(days))}}

CleanupByAgeCall ==
  /\ Running
  /\ UNCHANGED pureVars
  /\ \E days \in 0..MaxDays, readFails \in ReadOutcomes, save \in SaveOutcomes :
       \E undel \in SUBSET AgedPaths(days, readFails) :
         CleanupByAge(days, readFails, save, undel)

(* -------------------------- read operations ---------------------------- *)

\* What a call throws when it reaches into a log value that has no backups array.
TypeError == "TypeError"

\* listBackups' default for limit
DefaultLimit == 50

\* An absent or empty objectName, an absent or empty objectType: no filter.
NoName == <<>>
NoType == ""

NameFilters == ObjectNames \cup {NoName}
TypeFilters == {NoType, "view", "VIEW", "VIEWS", "PROCEDURE"}
Limits == (0..MaxCalls) \cup {DefaultLimit}

\* The tool passes the number it is given: a limit may be negative.
AnyLimits == Limits \cup {-1}

\* whole.includes(part), on the type names in use
includes(whole, part) ==
  \/ whole = part
  \/ <<part, whole>> \in {<<"VIEW", "VIEWS">>, <<"PROCEDURE", "SQL_STORED_PROCEDURE">>}

\* slice(0, limit); a negative limit counts from the end.
SliceTo(s, limit) ==
  SubSeq(s, 1, IF limit < 0 THEN Len(s) + limit
               ELSE IF limit < Len(s) THEN limit ELSE Len(s))

TypeMatches(b, objectType) ==
  LET normalizedType == toUpperCase(objectType)
      bType == toUpperCase(b.object_type)
  IN includes(bType, normalizedType) \/ includes(normalizedType, bType)

\* A listBackups that leaves out the entries whose content file is missing.
listBackupsOnDisk(readFails, objectName, objectType, limit) ==
  LET log == loadBackupLog(readFails)
      onDisk == SelectSeq(log, LAMBDA b : existsSync(files, b.backup_file))
      byName == IF objectName # NoName THEN Matching(onDisk, objectName) ELSE onDisk
      byType == IF objectType # NoType
                THEN SelectSeq(byName, LAMBDA b : TypeMatches(b, objectType))
                ELSE byName
  IN IF log = NoList THEN TypeError ELSE SliceTo(byType, limit)

listBackups(readFails, objectName, objectType, limit) ==
  LET log == loadBackupLog(readFails)
      byName == IF objectName # NoName THEN Matching(log, objectName) ELSE log
      byType == IF objectType # NoType
                THEN SelectSeq(byName, LAMBDA b : TypeMatches(b, objectType))
                ELSE byName
  IN IF log = NoList THEN TypeError ELSE SliceTo(byType, limit)

\* log.backups.find((b) => b.id === backupId) || null
getBackupById(readFails, backupId) ==
  LET log == loadBackupLog(readFails)
      index == findIndex(log, backupId)
  IN IF log = NoList THEN TypeError
     ELSE IF index # 0 THEN log[index] ELSE null

\* content.slice(1) when the text starts with the byte-order marker
removeBom(content) == [content EXCEPT !.bom = FALSE]

\* contentReadFails: readFileSync throws on the content file.
getBackupContent(readFails, contentReadFails, backupId) ==
  LET log == loadBackupLog(readFails)
      backup == getBackupById(readFails, backupId)
  IN IF log = NoList THEN TypeError
     ELSE IF backup = null THEN null
     ELSE IF ~existsSync(files, backup.backup_file) THEN null
     ELSE IF contentReadFails THEN null
     ELSE removeBom(files[backup.backup_file])

\* stat.size: sizes are counted in content files, each of one unit.
statSize(content) == 1

\* The loop of getBackupStats over total_size_bytes; unstat is the set of paths
\* on which statSync throws, which the catch passes over.
RECURSIVE sumSizes(_, _)
sumSizes(backups, unstat) ==
  IF backups = <<>> THEN 0
  ELSE LET path == Head(backups).backup_file
       IN (IF existsSync(files, path) /\ path \notin unstat
           THEN statSize(files[path]) ELSE 0) + sumSizes(Tail(backups), unstat)

countBy(keys) ==
  [k \in {keys[i] : i \in DOMAIN keys} |-> Cardinality({i \in DOMAIN keys : keys[i] = k})]

getBackupStats(readFails, unstat) ==
  LET log == loadBackupLog(readFails)
      stamps == {log[i].timestamp : i \in DOMAIN log}
  IN IF log = NoList THEN TypeError
     ELSE [total_backups |-> Len(log),
           by_type |-> countBy([i \in DOMAIN log |-> getObjectTypeDir(log[i].object_type)]),
           by_operation |-> countBy([i \in DOMAIN log |-> log[i].operation]),
           oldest_backup |-> IF log = <<>> THEN null
                             ELSE CHOOSE t \in stamps : \A u \in stamps : t <= u,
           newest_backup |-> IF log = <<>> THEN null
                             ELSE CHOOSE t \in stamps : \A u \in stamps : t >= u,
           total_size_bytes |-> sumSizes(log, unstat)]

\* A read operation throws where it reaches into log.backups and the parsed
\* log has none.
Throws(readFails) == loadBackupLog(readFails) = NoList

(* ----------------------------- diff engine ----------------------------- *)

\* Texts are sequences of characters; "\n" is the line feed.
Chars == {"a", "b", "\n"}

Texts == UNION {[1..n -> Chars] : n \in 0..MaxTextLen}

\* text.split('\n')
RECURSIVE split(_)
split(text) ==
  IF \E k \in DOMAIN text : text[k] = "\n"
  THEN LET k == CHOOSE i \in DOMAIN text :
                  text[i] = "\n" /\ \A j \in 1..(i - 1) : text[j] # "\n"
       IN <<SubSeq(text, 1, k - 1)>> \o split(SubSeq(text, k + 1, Len(text)))
  ELSE <<text>>

\* lines.join('\n')
RECURSIVE join(_)
join(lines) ==
  IF lines = <<>> THEN <<>>
  ELSE IF Len(lines) = 1 THEN lines[1]
  ELSE lines[1] \o <<"\n">> \o join(Tail(lines))

\* The smaller of the two neighbours.
min(x, y) == IF x <= y THEN x ELSE y

max(x, y) == IF x >= y THEN x ELSE y

\* A table without the + 1 of a match: every cell stays 0.
lcsFlat(oldLines, newLines) ==
  [i \in 0..Len(oldLines), j \in 0..Len(newLines) |-> 0]

\* The dp table of lcs: dp[i, j] is the length of a longest common subsequence
\* of the first i old lines and the first j new lines.
lcs(oldLines, newLines) ==
  LET m == Len(oldLines)
      n == Len(newLines)
      dp[i \in 0..m, j \in 0..n] ==
        IF i = 0 \/ j = 0 THEN 0
        ELSE IF oldLines[i] = newLines[j] THEN dp[i - 1, j - 1] + 1
        ELSE max(dp[i - 1, j], dp[i, j - 1])
  IN dp

\* A DiffLine; the line number 0 stands for null.
DiffLine(type, old, new, content) ==
  [type |-> type, lineNumber |-> [old |-> old, new |-> new], content |-> content]

\* The while loop of backtrack: tempResult, in the order of its pushes.
RECURSIVE tempResult(_, _, _, _, _)
tempResult(dp, oldLines, newLines, currI, currJ) ==
  IF currI > 0 \/ currJ > 0
  THEN IF currI > 0 /\ currJ > 0 /\ oldLines[currI] = newLines[currJ]
       THEN <<DiffLine("unchanged", currI, currJ, oldLines[currI])>>
              \o tempResult(dp, oldLines, newLines, currI - 1, currJ - 1)
       ELSE IF currJ > 0 /\ (currI = 0 \/ dp[currI, currJ - 1] >= dp[currI - 1, currJ])
       THEN <<DiffLine("added", 0, currJ, newLines[currJ])>>
              \o tempResult(dp, oldLines, newLines, currI, currJ - 1)
       ELSE <<DiffLine("removed", currI, 0, oldLines[currI])>>
              \o tempResult(dp, oldLines, newLines, currI - 1, currJ)
  ELSE <<>>

\* The entries as they were pushed.
asPushed(s) == s

reverse(s) == [i \in 1..Len(s) |-> s[Len(s) + 1 - i]]

backtrack(dp, oldLines, newLines, i, j) ==
  reverse(tempResult(dp, oldLines, newLines, i, j))

\* A comparison of the lengths in place of the texts.
sameLength(x, y) == Len(x) = Len(y)

\* oldText === newText
strictEquals(x, y) == x = y

\* A switch whose 'unchanged' case falls through into 'added'.
countFallingThrough(diffLines, type) ==
  Len(SelectSeq(diffLines,
                LAMBDA line : line.type = type \/ (type = "added" /\ line.type = "unchanged")))

\* linesAdded, linesRemoved: how often the switch takes the case of that type.
count(diffLines, type) == Len(SelectSeq(diffLines, LAMBDA line : line.type = type))

\* The line the switch pushes for a DiffLine.
outputLine(line) ==
  CASE line.type = "unchanged" -> <<" ", " ">> \o line.content
    [] line.type = "added" -> <<"+", " ">> \o line.content
    [] line.type = "removed" -> <<"-", " ">> \o line.content

\* A head without the empty line.
diffHeadOfTwo == <<(<<"-", "-", "-", " ", "o", "l", "d">>), (<<"+", "+", "+", " ", "n", "e", "w">>)>>

\* What diffOutput holds before the loop: '--- old', '+++ new', ''.
diffHead ==
  <<(<<"-", "-", "-", " ", "o", "l", "d">>), (<<"+", "+", "+", " ", "n", "e", "w">>), (<<>>)>>

\* '(No changes)'
NoChanges == <<"(", "N", "o", " ", "c", "h", "a", "n", "g", "e", "s", ")">>

generateDiff(old, new) ==
  LET oldLines == split(old)
      newLines == split(new)
      dp == lcs(oldLines, newLines)
      diffLines == backtrack(dp, oldLines, newLines, Len(oldLines), Len(newLines))
      diffOutput == diffHead \o [k \in DOMAIN diffLines |-> outputLine(diffLines[k])]
  IN IF strictEquals(old, new)
     THEN [diff |-> NoChanges, lines_added |-> 0, lines_removed |-> 0, is_identical |-> TRUE]
     ELSE [diff |-> join(diffOutput),
           lines_added |-> count(diffLines, "added"),
           lines_removed |-> count(diffLines, "removed"),
           is_identical |-> FALSE]

\* A call of generateDiff on the two texts.
GenerateDiff ==
  /\ ~diffResult.called
  /\ diffResult' = [called |-> TRUE, value |-> generateDiff(oldText, newText)]
  /\ UNCHANGED <<now, cfgFile, currentConfig, configLoaded, dirs, files, logFile, ret,
                 oldText, newText, loop, extractVars, got, toolVars, writers>>

\* No generateDiff is in its loop.
NoLoop == [at |-> "idle"]

\* A loop without its third branch.
branchOfTwo(dp, oldLines, newLines, currI, currJ) ==
  IF currI > 0 /\ currJ > 0 /\ oldLines[currI] = newLines[currJ] THEN "unchanged"
  ELSE IF currJ > 0 /\ (currI = 0 \/ dp[currI, currJ - 1] >= dp[currI - 1, currJ]) THEN "added"
  ELSE "none"

\* The branch an iteration of the while loop takes at (currI, currJ): that of
\* the first condition that holds, "none" if none does.
branch(dp, oldLines, newLines, currI, currJ) ==
  IF currI > 0 /\ currJ > 0 /\ oldLines[currI] = newLines[currJ] THEN "unchanged"
  ELSE IF currJ > 0 /\ (currI = 0 \/ dp[currI, currJ - 1] >= dp[currI - 1, currJ]) THEN "added"
  ELSE IF currI > 0 THEN "removed"
  ELSE "none"

\* generateDiff has split two different texts and built the table, and
\* backtrack is called from (m, n).
EnterBacktrack ==
  /\ loop = NoLoop
  /\ ~strictEquals(oldText, newText)
  /\ loop' = [at |-> "while", currI |-> Len(split(oldText)), currJ |-> Len(split(newText)),
              tempResult |-> <<>>, iterations |-> 0, took |-> "none"]
  /\ UNCHANGED <<now, cfgFile, currentConfig, configLoaded, dirs, files, logFile, ret,
                 oldText, newText, diffResult, extractVars, got, toolVars, writers>>

\* One iteration of the while loop; at (0, 0) the loop is left. The iterations
\* are followed up to one beyond the sum of the two numbers of lines.
Iteration ==
  /\ loop.at = "while"
  /\ loop.iterations <= Len(split(oldText)) + Len(split(newText))
  /\ LET oldLines == split(oldText)
         newLines == split(newText)
         dp == lcs(oldLines, newLines)
         currI == loop.currI
         currJ == loop.currJ
         taken == branch(dp, oldLines, newLines, currI, currJ)
     IN IF currI > 0 \/ currJ > 0
        THEN loop' =
               [loop EXCEPT
                  !.iterations = @ + 1,
                  !.took = taken,
                  !.currI = IF taken \in {"unchanged", "removed"} THEN @ - 1 ELSE @,
                  !.currJ = IF taken \in {"unchanged", "added"} THEN @ - 1 ELSE @,
                  !.tempResult =
                     CASE taken = "unchanged" ->
                            Append(@, DiffLine("unchanged", currI, currJ, oldLines[currI]))
                       [] taken = "added" ->
                            Append(@, DiffLine("added", 0, currJ, newLines[currJ]))
                       [] taken = "removed" ->
                            Append(@, DiffLine("removed", currI, 0, oldLines[currI]))
                       [] OTHER -> @]
        ELSE loop' = [loop EXCEPT !.at = "returned"]
  /\ UNCHANGED <<now, cfgFile, currentConfig, configLoaded, dirs, files, logFile, ret,
                 oldText, newText, diffResult, extractVars, got, toolVars, writers>>

(* ------------------------ content files as text ------------------------ *)

\* Content is a sequence of characters here, and pieces of fixed wording are
\* taken as one character each. The rule is the line of = signs, RuleLen long.
UTF8_BOM == "BOM"

rule == [i \in 1..RuleLen |-> "="]

\* The characters a definition is made of: those of the header's end, and "K",
\* which stands for wording that the fallback pattern matches (CREATE VIEW, ...).
DefChars == {"=", "\n", "*", "/", "K"}

DefinitionTexts == UNION {[1..n -> DefChars] : n \in 0..MaxDefLen}

\* The header template of formatBackupContent, filled in.
headerText(header) ==
  <<"/", "*", "\n">> \o rule \o <<"\n", "BACKUP AUTOMATICO - MCP SQL Server", "\n">>
    \o rule \o <<"\n", "Objeto:      ">> \o header.Objeto
    \o <<"\n", "Tipo:        ", header.Tipo>>
    \o <<"\n", "Schema:      ", header.Schema>>
    \o <<"\n", "Fecha:       ", ToString(header.Fecha)>>
    \o <<"\n", "Operacion:   ", header.Operacion>>
    \o <<"\n", "Base Datos:  ", header.BaseDatos, "\n">>
    \o rule \o <<"\n", "PARA RESTAURAR: Ejecute el contenido de este archivo en SSMS", "\n">>
    \o rule \o <<"\n", "*", "/", "\n", "\n">>

\* UTF8_BOM + header + definition, as the characters written to the file
contentText(content) ==
  (IF content.bom THEN <<UTF8_BOM>> ELSE <<>>) \o headerText(content.header)
    \o content.definition

headerEndMarker == rule \o <<"\n", "*", "/", "\n", "\n">>

\* The places where part occurs in text.
occurrences(text, part) ==
  {k \in 1..(Len(text) - Len(part) + 1) : SubSeq(text, k, k + Len(part) - 1) = part}

\* The index of the first match of a pattern; 0 stands for no match.
indexOf(text, part) ==
  IF occurrences(text, part) = {} THEN 0
  ELSE CHOOSE k \in occurrences(text, part) : \A l \in occurrences(text, part) : k <= l

\* A search that stops at the first place.
searchFromTheStart(text, part) == indexOf(text, part)

\* text.lastIndexOf(part): the last place; 0 stands for -1.
lastIndexOf(text, part) ==
  IF occurrences(text, part) = {} THEN 0
  ELSE CHOOSE k \in occurrences(text, part) : \A l \in occurrences(text, part) : k >= l

\* content.substring(from), counting from 1
substring(text, from) == SubSeq(text, from, Len(text))

extractDefinitionFromBackup(content) ==
  LET headerEndIndex == lastIndexOf(content, headerEndMarker)
      createMatch == indexOf(content, <<"K">>)
  IN IF headerEndIndex # 0 THEN substring(content, headerEndIndex + Len(headerEndMarker))
     ELSE IF createMatch # 0 THEN substring(content, createMatch)
     ELSE content

\* formatBackupContent is called with the arguments, and the text is what a
\* reader gets: as written, or with the byte-order marker taken off as
\* getBackupContent does.
FormatBackupContent ==
  /\ ~backupText.called
  /\ \E withBom \in BOOLEAN :
       LET content == formatBackupContent(formatArgs.objectName, "VIEW", SchemaName,
                                          formatArgs.definition, "ALTER", Database, now)
       IN backupText' = [called |-> TRUE,
                         value |-> contentText(IF withBom THEN content ELSE removeBom(content))]
  /\ UNCHANGED <<now, cfgFile, currentConfig, configLoaded, dirs, files, logFile, ret,
                 diffVars, formatArgs, extracted, got, toolVars, writers>>

ExtractDefinition ==
  /\ backupText.called
  /\ ~extracted.called
  /\ extracted' = [called |-> TRUE, value |-> extractDefinitionFromBackup(backupText.value)]
  /\ UNCHANGED <<now, cfgFile, currentConfig, configLoaded, dirs, files, logFile, ret,
                 diffVars, formatArgs, backupText, got, toolVars, writers>>

(* ---------------------------- list_backups ----------------------------- *)

\* No reading operation was called yet.
NoCall == [op |-> "none"]

\* The object types of the entries that are listed.
ListedTypes == {"VIEW", "PROCEDURE", "SQL_STORED_PROCEDURE"}

\* The tool list_backups: listBackups with the arguments as given.
ListBackups ==
  /\ got = NoCall
  /\ \E readFails \in ReadOutcomes, objectName \in NameFilters, objectType \in TypeFilters,
        limit \in AnyLimits :
       got' = [op |-> "listBackups", readFailed |-> readFails, objectName |-> objectName,
               objectType |-> objectType, limit |-> limit, threw |-> Throws(readFails),
               value |-> listBackups(readFails, objectName, objectType, limit)]
  /\ UNCHANGED <<now, cfgFile, currentConfig, configLoaded, dirs, files, logFile, ret,
                 diffVars, extractVars, toolVars, writers>>

(* --------------------------- compareBackups ---------------------------- *)

\* The second id that stands for the object as it is now.
current == <<"current">>

\* currentDefinition left out, and given as a text
undefined == [given |-> FALSE, text |-> <<>>]

string(text) == [given |-> TRUE, text |-> text]

CurrentDefinitions == {undefined, string(<<>>), string(<<"d1">>), string(<<"d1", "\n", "d2">>)}

\* The ids a caller may name: those given out at a time of the model, and current.
BackupIds == {generateBackupId(t, random) : t \in 0..MaxTime, random \in RandomSuffixes}

\* The definition held by a content that getBackupContent returned.
definitionOf(content) == extractDefinitionFromBackup(contentText(content))

\* reads[k]: the k-th reading of the log fails (by getBackupById and
\* getBackupContent for the old id, then for the new one); unread[k]: reading
\* the old (1) or new (2) content file fails. A missing content is null here,
\* and a content that is there has its header, so !content is content = null.
compareBackups(reads, unread, backupIdOld, backupIdNew, currentDefinition, t) ==
  LET oldBackup == getBackupById(reads[1], backupIdOld)
      oldContent == getBackupContent(reads[2], unread[1], backupIdOld)
      newBackup == getBackupById(reads[3], backupIdNew)
      newBackupContent == getBackupContent(reads[4], unread[2], backupIdNew)
      DiffResult(newContent, newBackupInfo) ==
        LET d == generateDiff(definitionOf(oldContent), newContent)
        IN [object_name |-> oldBackup.object_name,
            old_version |-> [backup_id |-> oldBackup.id, timestamp |-> oldBackup.timestamp],
            new_version |-> newBackupInfo,
            diff |-> d.diff,
            lines_added |-> d.lines_added,
            lines_removed |-> d.lines_removed,
            is_identical |-> d.is_identical]
  IN IF Throws(reads[1]) THEN TypeError
     ELSE IF oldBackup = null THEN null
     ELSE IF Throws(reads[2]) THEN TypeError
     ELSE IF oldContent = null THEN null
     ELSE IF backupIdNew = current
       THEN IF currentDefinition = undefined \/ currentDefinition = string(<<>>) THEN null
            ELSE DiffResult(currentDefinition.text, [backup_id |-> current, timestamp |-> t])
     ELSE IF Throws(reads[3]) THEN TypeError
     ELSE IF newBackup = null THEN null
     ELSE IF Throws(reads[4]) THEN TypeError
     ELSE IF newBackupContent = null THEN null
     ELSE DiffResult(definitionOf(newBackupContent),
                     [backup_id |-> newBackup.id, timestamp |-> newBackup.timestamp])

\* Whether the call above ends in the TypeError.
compareBackupsThrows(reads, unread, backupIdOld, backupIdNew, currentDefinition) ==
  \/ Throws(reads[1])
  \/ /\ getBackupById(reads[1], backupIdOld) # null
     /\ \/ Throws(reads[2])
        \/ /\ getBackupContent(reads[2], unread[1], backupIdOld) # null
           /\ backupIdNew # current
           /\ \/ Throws(reads[3])
              \/ /\ getBackupById(reads[3], backupIdNew) # null
                 /\ Throws(reads[4])

\* One comparison is followed; the log reads throughout it or fails throughout,
\* and a current definition is given with the id current only.
CompareBackups ==
  /\ got = NoCall
  /\ \E readFails \in BOOLEAN, unread \in [1..2 -> BOOLEAN],
        backupIdOld \in BackupIds, backupIdNew \in BackupIds \cup {current} :
     \E currentDefinition \in (IF backupIdNew = current THEN CurrentDefinitions
                                ELSE {undefined}) :
     LET reads == [k \in 1..4 |-> readFails] IN
       got' = [op |-> "compareBackups", reads |-> reads, unread |-> unread,
               backupIdOld |-> backupIdOld, backupIdNew |-> backupIdNew,
               currentDefinition |-> currentDefinition,
               threw |-> compareBackupsThrows(reads, unread, backupIdOld, backupIdNew,
                                              currentDefinition),
               value |-> compareBackups(reads, unread, backupIdOld, backupIdNew,
                                        currentDefinition, now)]
  /\ UNCHANGED <<now, cfgFile, currentConfig, configLoaded, dirs, files, logFile, ret,
                 diffVars, extractVars, toolVars, writers>>

(* ------------------------ alter and drop tools ------------------------- *)

\* No tool was called yet.
NoTool == [n |-> 0, name |-> "none", code |-> "none", backup_id |-> ""]

\* typeMap of verifyObjectExists: the type_desc values taken for an expected type.
typeMap(expectedType) ==
  CASE expectedType = "PROCEDURE" -> {"SQL_STORED_PROCEDURE"}
    [] expectedType = "FUNCTION" -> {"SQL_SCALAR_FUNCTION", "SQL_TABLE_VALUED_FUNCTION",
                                     "SQL_INLINE_TABLE_VALUED_FUNCTION"}
    [] expectedType = "VIEW" -> {"VIEW"}
    [] expectedType = "TRIGGER" -> {"SQL_TRIGGER"}
    [] OTHER -> {}

\* The type_desc values the database holds objects of.
TypeDescs == {"SQL_STORED_PROCEDURE", "SQL_SCALAR_FUNCTION", "VIEW"}

\* A new definition: none, or a statement whose first word is CREATE or ALTER
\* followed by the kind of object.
NewDefinitions == {<<>>, <<"CREATE", "x">>, <<"ALTER", "x">>}

\* newDefinition with a leading CREATE <kind> replaced by ALTER <kind>
finalDefinition(newDefinition) ==
  IF newDefinition[1] = "CREATE" THEN <<"ALTER">> \o Tail(newDefinition) ELSE newDefinition

\* The tools go on whatever the backup returned.
backupReturned(backupResult) == TRUE

\* backupResult.success
backupSucceeded(backupResult) == backupResult.success

\* The calls of the tools are counted up to the bound.
ToolRunning == tool.n < MaxCalls

\* A tool call that throws the error with the code before createBackup is called.
Thrown(name, code) ==
  /\ tool' = [n |-> tool.n + 1, name |-> name, code |-> code, backup_id |-> ""]
  /\ UNCHANGED <<executed, now, cfgFile, dirs, files, logFile, ret>>

\* The body shared by alterProcedure, alterFunction, alterView and dropObject:
\* the checks, verifyObjectExists, createBackup, and then the statement. Each
\* check fails for some arguments and configuration, whatever the store holds;
\* found is the type_desc sys.objects holds under the name; execFails: dbExec
\* throws. wrapped is the code of the error the catch block wraps other errors in.
AlterOrDrop(name, expectedType, operation, wrapped) ==
  /\ ToolRunning
  /\ UNCHANGED <<diffVars, extractVars, got, writers>>
  /\ \/ \* dbType !== 'sqlserver'
        Thrown(name, "DATABASE_NOT_SUPPORTED") /\ UNCHANGED <<currentConfig, configLoaded>>
     \/ \* security.require_confirm_for_alter (for_drop) && !confirm
        Thrown(name, "CONFIRM_REQUIRED") /\ ConfigRead
     \/ \* no name, no new definition, or ALL
        Thrown(name, "INVALID_OPERATION") /\ ConfigRead
     \/ \* !existingObj.exists
        expectedType # "ALL" /\ Thrown(name, "OBJECT_NOT_FOUND") /\ ConfigRead
     \/ \* dbAll throws in verifyObjectExists
        expectedType # "ALL" /\ Thrown(name, wrapped) /\ ConfigRead
     \/ \E objectName \in {<<"A">>}, found \in TypeDescs \cap typeMap(expectedType) :
          /\ Running
          /\ createBackup({objectName}, {found}, Definitions, {operation})
          /\ IF ~backupSucceeded(ret')
             THEN /\ tool' = [n |-> tool.n + 1, name |-> name, code |-> "BACKUP_FAILED",
                              backup_id |-> ""]
                  /\ executed' = executed
             ELSE \E newDefinition \in NewDefinitions \ {<<>>}, execFails \in BOOLEAN :
                    /\ executed' = Append(executed,
                                          [statement |-> IF operation = "ALTER"
                                                         THEN finalDefinition(newDefinition)
                                                         ELSE <<"DROP", expectedType>>,
                                           object_name |-> objectName,
                                           after |-> ret'.n])
                    /\ tool' = [n |-> tool.n + 1, name |-> name,
                                code |-> IF execFails THEN wrapped ELSE "OK",
                                backup_id |-> IF execFails THEN "" ELSE ret'.backup_id]

AlterProcedure == AlterOrDrop("alterProcedure", "PROCEDURE", "ALTER", "SYNTAX_ERROR")

AlterFunction == AlterOrDrop("alterFunction", "FUNCTION", "ALTER", "SYNTAX_ERROR")

AlterView == AlterOrDrop("alterView", "VIEW", "ALTER", "SYNTAX_ERROR")

DropObject ==
  \E objectType \in {"VIEW", "ALL"} :
    AlterOrDrop("dropObject", objectType, "DROP", "INVALID_OPERATION")

(* ------------------------- restore_from_backup ------------------------- *)

\* The definitions of the objects that are backed up and restored: statements
\* whose first word is CREATE, followed by the kind of object.
StoredDefinitions == {<<"CREATE", "x">>}

\* m.definition of sys.sql_modules: what the database holds under the name now.
DatabaseDefinitions == {<<"CREATE", "x", "v2">>}

\* definition.replace(/\bCREATE\s+(PROCEDURE)/gi, 'ALTER $1') and the three
\* replacements that follow it: every CREATE before a kind becomes ALTER.
createToAlter(definition) ==
  <<>> \o [i \in DOMAIN definition |->
             IF definition[i] = "CREATE" /\ i < Len(definition) /\ definition[i + 1] = "x"
             THEN "ALTER" ELSE definition[i]]

\* restoreDefinition.replace(/^\s*GO\s*$/gim, '')
withoutGo(definition) == SelectSeq(definition, LAMBDA word : word # "GO")

restoreDefinition(definition, objectExists) ==
  withoutGo(IF objectExists THEN createToAlter(definition) ELSE definition)

\* A call of restoreFromBackup that throws the error with the code before
\* createBackup is called; the configuration is not read.
RestoreThrown(code, backupId) ==
  /\ tool' = [n |-> tool.n + 1, name |-> "restoreFromBackup", code |-> code, backup_id |-> "",
              restored |-> backupId, existed |-> FALSE]
  /\ UNCHANGED <<executed, now, cfgFile, currentConfig, configLoaded, dirs, files, logFile,
                 ret>>

\* restoreFromBackup(backupId, confirm). reads: whether readFileSync of the log
\* throws in getBackupById and in getBackupContent; unread: readFileSync of the
\* content file throws; objectExists: sys.objects holds the name; execFails:
\* dbExec throws.
restoreFromBackup(backupId, reads, unread, objectExists, execFails) ==
  LET backup == getBackupById(reads[1], backupId)
      content == getBackupContent(reads[2], unread, backupId)
      definition == definitionOf(content)
      sent(after) == Append(executed, [statement |-> restoreDefinition(definition, objectExists),
                                       object_name |-> backup.object_name,
                                       after |-> after])
      result(preRestoreBackupId) ==
        [n |-> tool.n + 1, name |-> "restoreFromBackup",
         code |-> IF execFails THEN "RESTORE_FAILED" ELSE "OK",
         backup_id |-> IF execFails THEN "" ELSE preRestoreBackupId,
         restored |-> backupId, existed |-> objectExists]
  IN IF Throws(reads[1]) THEN RestoreThrown("RESTORE_FAILED", backupId)
     ELSE IF backup = null THEN RestoreThrown("OBJECT_NOT_FOUND", backupId)
     ELSE IF Throws(reads[2]) THEN RestoreThrown("RESTORE_FAILED", backupId)
     ELSE IF content = null THEN RestoreThrown("BACKUP_FAILED", backupId)
     ELSE IF objectExists
       THEN /\ Running
            /\ \E found \in {"VIEW"} :
                 createBackup({backup.object_name}, {found}, DatabaseDefinitions, {"RESTORE"})
            /\ executed' = sent(ret'.n)
            /\ tool' = result(IF ret'.success THEN ret'.backup_id ELSE "")
       ELSE /\ executed' = sent(0)
            /\ tool' = result("")
            /\ UNCHANGED <<now, cfgFile, currentConfig, configLoaded, dirs, files, logFile, ret>>

RestoreFromBackup ==
  /\ ToolRunning
  /\ UNCHANGED <<diffVars, extractVars, got, writers>>
  /\ \/ \* dbType !== 'sqlserver'
        RestoreThrown("DATABASE_NOT_SUPPORTED", "")
     \/ \* !confirm
        RestoreThrown("CONFIRM_REQUIRED", "")
     \/ \* !backupId
        RestoreThrown("INVALID_OPERATION", "")
     \/ \* dbAll throws
        \E backupId \in BackupIds :
          /\ ~Throws(FALSE)
          /\ getBackupContent(FALSE, FALSE, backupId) # null
          /\ RestoreThrown("RESTORE_FAILED", backupId)
     \/ \E backupId \in BackupIds, reads \in [1..2 -> ReadOutcomes], unread \in BOOLEAN,
           objectExists \in BOOLEAN, execFails \in BOOLEAN :
          restoreFromBackup(backupId, reads, unread, objectExists, execFails)

(* ---------------------- createBackup, step by step --------------------- *)

\* The createBackup calls that run at the same time.
Writers == {1, 2}

WrittenNames == {<<"A">>, <<"B">>}

\* A call that has not started.
NoWriter ==
  [at |-> "idle", fault |-> "none", objectName |-> <<>>, backupId |-> "", backupFilename |-> "",
   content |-> "", entry |-> null, backups |-> <<>>, readFailed |-> FALSE, removed |-> 0,
   success |-> FALSE]

WritersIdle == writers = [w \in Writers |-> NoWriter]

\* The call returns from the catch block, or because backups are disabled.
WriterFails(w, fault) ==
  writers' = [writers EXCEPT ![w] = [writers[w] EXCEPT !.at = "returned", !.fault = fault,
                                                       !.success = FALSE]]

\* createBackup up to writeFileSync(backupPath, content): the configuration,
\* the directories, the id, the file name and the content file.
WriterBegins(w) ==
  /\ writers[w].at = "idle"
  /\ ConfigRead
  /\ UNCHANGED <<now, cfgFile, logFile, ret, diffVars, extractVars, got, toolVars>>
  /\ IF ~getBackupConfig.enabled
     THEN WriterFails(w, "disabled") /\ UNCHANGED <<dirs, files>>
     ELSE \/ \E k \in DOMAIN DirOrder :
               /\ DirOrder[k] \notin dirs
               /\ dirs' = DirsUpTo(k)
               /\ WriterFails(w, "mkdir")
               /\ UNCHANGED files
          \/ /\ dirs' = AllDirs
             /\ WriterFails(w, "write")
             /\ UNCHANGED files
          \/ \E objectName \in WrittenNames, objectType \in ObjectTypes,
                definition \in Definitions, operation \in Operations :
               LET backupFilename == generateBackupFilename(objectName, objectType, now)
                   content == formatBackupContent(objectName, objectType, SchemaName,
                                                  definition, operation, Database, now)
               IN /\ dirs' = AllDirs
                  /\ files' = writeFile(files, backupFilename, content)
                  /\ writers' = [writers EXCEPT ![w] =
                       [writers[w] EXCEPT !.at = "written", !.objectName = objectName,
                                          !.backupId = generateBackupId(now, w - 1),
                                          !.backupFilename = backupFilename,
                                          !.content = content]]

\* const log = loadBackupLog(), the entry, and log.backups.unshift(entry)
WriterLoads(w) ==
  /\ writers[w].at = "written"
  /\ UNCHANGED <<now, cfgFile, currentConfig, configLoaded, dirs, files, logFile, ret,
                 diffVars, extractVars, got, toolVars>>
  /\ \E readFails \in ReadOutcomes :
       LET log == loadBackupLog(readFails)
           entry == NewEntry(writers[w].backupId, writers[w].objectName, "VIEW", "ALTER",
                             writers[w].backupFilename, writers[w].content)
       IN IF log = NoList
          THEN WriterFails(w, "nolist")
          ELSE writers' = [writers EXCEPT ![w] =
                 [writers[w] EXCEPT !.at = "loaded", !.entry = entry,
                                    !.readFailed = readFails,
                                    !.backups = Unshift(entry, log)]]

\* A save that puts the entry in front of what the log file holds at that
\* moment.
mergedWithPersisted(entry, backups) ==
  Unshift(entry, IF logFile.kind = "log" THEN logFile.backups ELSE <<>>)

\* The list saveBackupLog(log) writes: the one this call loaded and changed.
savedBackups(entry, backups) == backups

\* cleanupOldBackups on the loaded list, saveBackupLog, and the return.
WriterSaves(w) ==
  LET config == getBackupConfig
      objectBackups == Matching(writers[w].backups, writers[w].objectName)
  IN /\ writers[w].at = "loaded"
     /\ UNCHANGED <<now, cfgFile, currentConfig, configLoaded, dirs, ret,
                    diffVars, extractVars, got, toolVars>>
     /\ \E save \in SaveOutcomes,
           undel \in SUBSET (IF config.auto_cleanup
                             THEN {objectBackups[i].backup_file : i \in DOMAIN objectBackups}
                             ELSE {}) :
          LET cleaned == IF config.auto_cleanup
                         THEN cleanupOldBackups(writers[w].backups, files, writers[w].objectName,
                                                config.max_backups_per_object, undel)
                         ELSE [backups |-> writers[w].backups, files |-> files, failed |-> {}]
          IN /\ cleaned.failed = undel
             /\ files' = cleaned.files
             /\ logFile' = saveBackupLog(savedBackups(writers[w].entry, cleaned.backups), save)
             /\ writers' = [writers EXCEPT ![w] =
                  [writers[w] EXCEPT !.at = "returned", !.backups = cleaned.backups,
                                     !.removed = Len(writers[w].backups)
                                                   - Len(cleaned.backups),
                                     !.fault = IF save = "ok" THEN "none" ELSE "save",
                                     !.success = (save = "ok")]]

\* A scheduler that switches between the calls at any step.
Preempted(w) == TRUE

\* JavaScript runs a function without await to its end: within one process a
\* call starts and goes on only while no other call is inside createBackup.
RunsToCompletion(w) ==
  \A v \in Writers \ {w} : writers[v].at \in {"idle", "returned"}

(* ---------------------------- environment ------------------------------ *)

Tick ==
  /\ Running
  /\ now < MaxTime
  /\ now' = now + 1
  /\ UNCHANGED <<cfgFile, currentConfig, configLoaded, dirs, files, logFile, ret, pureVars>>

\* .mcp-sqlserver.json is edited; a running server goes on with what it loaded.
ConfigFileChange ==
  /\ \E c \in Configs : cfgFile' = c
  /\ UNCHANGED <<now, currentConfig, configLoaded, dirs, files, logFile, ret, pureVars>>

\* setProjectRoot
SetProjectRoot ==
  /\ configLoaded' = FALSE
  /\ UNCHANGED <<now, cfgFile, currentConfig, dirs, files, logFile, ret, pureVars>>

\* The server is started again, with whatever .mcp-sqlserver.json holds by then:
\* the module variables are back at their initial values.
Restart ==
  /\ Running
  /\ \E c \in Configs : cfgFile' = c
  /\ currentConfig' = DEFAULT_CONFIG
  /\ configLoaded' = FALSE
  /\ UNCHANGED <<now, dirs, files, logFile, ret, pureVars>>

\* backup_log.json is overwritten from outside with text that does not parse, or
\* with JSON that is not a log.
LogFileDamaged ==
  /\ Running
  /\ "root" \in dirs
  /\ \E k \in {"garbage", "nolist"} : logFile' = [kind |-> k, backups |-> <<>>]
  /\ UNCHANGED <<now, cfgFile, currentConfig, configLoaded, dirs, files, ret, pureVars>>

\* The backup manager before its first call, in a project without backups.
InitBackup(configs) ==
  /\ now = 0
  /\ cfgFile \in configs
  /\ currentConfig = DEFAULT_CONFIG
  /\ configLoaded = FALSE
  /\ dirs = {}
  /\ files = <<>>
  /\ logFile = [kind |-> "missing", backups |-> <<>>]
  /\ ret = [n |-> 0, op |-> "none", fault |-> "none", readFailed |-> FALSE, failed |-> {},
            days |-> 0, threw |-> FALSE, success |-> FALSE, backup_id |-> "",
            backup_file |-> "", removed |-> 0, entry |-> null, wrote |-> ""]

\* No function has been called on its own.
NoDiff == [called |-> FALSE]

DiffIdle ==
  /\ oldText = <<>>
  /\ newText = <<>>
  /\ diffResult = NoDiff
  /\ loop = NoLoop

NoText == [called |-> FALSE]

ExtractIdle ==
  /\ formatArgs = [objectName |-> <<>>, definition |-> <<>>]
  /\ backupText = NoText
  /\ extracted = NoText

ToolIdle ==
  /\ executed = <<>>
  /\ tool = NoTool

PureIdle == DiffIdle /\ ExtractIdle /\ got = NoCall /\ ToolIdle /\ WritersIdle

Init == InitBackup(Configs) /\ PureIdle

Next ==
  \/ CreateBackup
  \/ CleanupByAgeCall
  \/ Tick
  \/ Restart
  \/ LogFileDamaged

Spec == Init /\ [][Next]_vars

\* A server that keeps running while .mcp-sqlserver.json is edited and the
\* project root is set again.
NextConfig ==
  \/ CreateBackup
  \/ ConfigFileChange
  \/ SetProjectRoot

SpecConfig == Init /\ [][NextConfig]_vars

\* generateDiff on its own, for every pair of texts.
InitDiff ==
  /\ InitBackup({DEFAULT_CONFIG})
  /\ ExtractIdle
  /\ got = NoCall
  /\ ToolIdle
  /\ WritersIdle
  /\ oldText \in Texts
  /\ newText \in Texts
  /\ diffResult = NoDiff
  /\ loop = NoLoop

NextDiff == GenerateDiff

SpecDiff == InitDiff /\ [][NextDiff]_vars

\* generateDiff followed through the loop of backtrack, for every pair of texts
\* of up to MaxLoopLen characters. A loop that is running goes on: the iteration
\* is weakly fair.
InitLoop ==
  /\ InitBackup({DEFAULT_CONFIG})
  /\ ExtractIdle
  /\ got = NoCall
  /\ ToolIdle
  /\ WritersIdle
  /\ oldText \in {text \in Texts : Len(text) <= MaxLoopLen}
  /\ newText \in {text \in Texts : Len(text) <= MaxLoopLen}
  /\ diffResult = NoDiff
  /\ loop = NoLoop

NextLoop ==
  \/ EnterBacktrack
  \/ Iteration

SpecLoop == InitLoop /\ [][NextLoop]_vars /\ WF_vars(Iteration)

\* formatBackupContent and extractDefinitionFromBackup, for every definition
\* and for a name that holds the header's end itself.
InitExtract ==
  /\ InitBackup({DEFAULT_CONFIG})
  /\ DiffIdle
  /\ got = NoCall
  /\ ToolIdle
  /\ WritersIdle
  /\ formatArgs \in [objectName : {<<"A">>, headerEndMarker}, definition : DefinitionTexts]
  /\ backupText = NoText
  /\ extracted = NoText

NextExtract ==
  \/ FormatBackupContent
  \/ ExtractDefinition

SpecExtract == InitExtract /\ [][NextExtract]_vars

\* The store after backups of objects of several types, made without cleanup in
\* the first second: the i-th entry of the log has the i-th id.
KeepingAll == [enabled |-> TRUE, max_backups_per_object |-> MaxCap, auto_cleanup |-> FALSE]

ListedLogs ==
  UNION {[1..n -> [objectName : ObjectNames, objectType : ListedTypes]] : n \in 0..MaxListed}

InitList ==
  /\ InitBackup({KeepingAll})
  /\ DiffIdle
  /\ ExtractIdle
  /\ got = NoCall
  /\ ToolIdle
  /\ WritersIdle

\* The backups that were made, taken as one step.
BackupsMade ==
  /\ got = NoCall
  /\ logFile.kind = "missing"
  /\ \E made \in ListedLogs :
       LET file(i) == generateBackupFilename(made[i].objectName, made[i].objectType, now)
           content(i) == formatBackupContent(made[i].objectName, made[i].objectType,
                                             SchemaName, <<"d1">>, "ALTER", Database, now)
       IN /\ logFile' = [kind |-> "log",
                         backups |-> <<>> \o
                                     [i \in DOMAIN made |->
                                        NewEntry(generateBackupId(now, i), made[i].objectName,
                                                 made[i].objectType, "ALTER", file(i),
                                                 content(i))]]
          /\ files' = [path \in {file(i) : i \in DOMAIN made} |->
                         content(CHOOSE i \in DOMAIN made : file(i) = path)]
  /\ dirs' = AllDirs
  /\ currentConfig' = cfgFile
  /\ configLoaded' = TRUE
  /\ UNCHANGED <<now, cfgFile, ret, pureVars>>

NextList ==
  \/ BackupsMade
  \/ ListBackups

SpecList == InitList /\ [][NextList]_vars

\* The tools that change the database, with the log damaged from outside.
NextTools ==
  \/ AlterProcedure
  \/ AlterFunction
  \/ AlterView
  \/ DropObject
  \/ LogFileDamaged

SpecTools == Init /\ [][NextTools]_vars

\* Backups are made and the log is damaged from outside; then two backups are
\* compared, and the comparison is the last call that is followed.
CreateBackupBefore == got = NoCall /\ CreateBackup

LogFileDamagedBefore == got = NoCall /\ LogFileDamaged

NextCompare ==
  \/ CreateBackupBefore
  \/ LogFileDamagedBefore
  \/ CompareBackups

SpecCompare == Init /\ [][NextCompare]_vars

\* The objects restore_from_backup is followed on: one object under two
\* spellings of its name.
RestoredNames == {<<"A">>, <<"a">>}

\* Backups are made, and then the tool is called: one call is followed.
CreateBackupOfObject ==
  /\ tool = NoTool
  /\ Running
  /\ UNCHANGED pureVars
  /\ createBackup(RestoredNames, ObjectTypes, StoredDefinitions, Operations)

TickBefore == tool = NoTool /\ Tick

RestoreFromBackupOnce == tool = NoTool /\ RestoreFromBackup

NextRestore ==
  \/ CreateBackupOfObject
  \/ RestoreFromBackupOnce
  \/ TickBefore

SpecRestore == Init /\ [][NextRestore]_vars

\* Two writers in separate processes, with no lock on the store.
NextWriters ==
  \/ \E w \in Writers : WriterBegins(w)
  \/ \E w \in Writers : WriterLoads(w)
  \/ \E w \in Writers : WriterSaves(w)
  \/ Tick

SpecWriters == Init /\ [][NextWriters]_vars

\* Two calls issued at the same time within one process.
NextCalls ==
  \/ \E w \in Writers : RunsToCompletion(w) /\ WriterBegins(w)
  \/ \E w \in Writers : RunsToCompletion(w) /\ WriterLoads(w)
  \/ \E w \in Writers : RunsToCompletion(w) /\ WriterSaves(w)
  \/ Tick

SpecCalls == Init /\ [][NextCalls]_vars

\* Objects whose names differ only in a character that generateBackupFilename
\* replaces: "a-" and "a_" are two objects with one sanitized name.
PunctuatedNames == {<<"a", "-">>, <<"a", "_">>}

CreateBackupNamed ==
  /\ Running
  /\ UNCHANGED pureVars
  /\ createBackup(PunctuatedNames, ObjectTypes, Definitions, Operations)

NextNames ==
  \/ CreateBackupNamed
  \/ Tick

SpecNames == Init /\ [][NextNames]_vars

(* ------------------------------ claims --------------------------------- *)

\* A step that is a call of createBackup, of cleanupByAge.
CreateStep == ret'.n = ret.n + 1 /\ ret'.op = "createBackup"

CleanupStep == ret'.n = ret.n + 1 /\ ret'.op = "cleanupByAge"

\* The entries of the persisted log, and those a call started from.
Persisted == IF logFile.kind = "log" THEN logFile.backups ELSE <<>>

LoadedBy(call) == IF call.readFailed THEN <<>> ELSE Persisted

EqualIgnoringCase(x, y) == toLowerCase(x) = toLowerCase(y)

\* The subsequence of s at the indices in S.
KeepIdx(s, S) ==
  LET F[i \in 0..Len(s)] ==
        IF i = 0 THEN <<>> ELSE IF i \in S THEN Append(F[i - 1], s[i]) ELSE F[i - 1]
  IN F[Len(s)]

\* The entries of L for object X, and those of them beyond the K most recent.
MatchIdx(L, X) == {i \in DOMAIN L : EqualIgnoringCase(L[i].object_name, X)}

Excess(L, X, K) ==
  {i \in MatchIdx(L, X) : Cardinality({j \in MatchIdx(L, X) : j <= i}) > K}

\* C1 as stated: a successful createBackup for X under auto_cleanup with cap K,
\* the log then holding N > K entries for X ignoring case, removes exactly the
\* N-K oldest of them from the log, with their content files, and keeps the rest.
C1_EvictsExactlyTheExcess ==
  [][(CreateStep /\ ret'.success /\ getBackupConfig.auto_cleanup) =>
       LET L == <<ret'.entry>> \o LoadedBy(ret')
           E == Excess(L, ret'.entry.object_name, getBackupConfig.max_backups_per_object)
       IN E # {} =>
            /\ logFile'.backups = KeepIdx(L, DOMAIN L \ E)
            /\ \A i \in E : L[i].backup_file \notin DOMAIN files']_vars

\* C1 amended: of the N-K oldest entries for X, exactly those whose content file
\* was deleted or was already gone are removed from the log, and their files are
\* gone; those whose file could not be deleted stay in the log, in place, and so
\* do the K most recent and every entry of another object.
C1_EvictsTheDeletableExcess ==
  [][(CreateStep /\ ret'.success /\ getBackupConfig.auto_cleanup) =>
       LET L == <<ret'.entry>> \o LoadedBy(ret')
           E == Excess(L, ret'.entry.object_name, getBackupConfig.max_backups_per_object)
           R == {i \in E : L[i].backup_file \notin ret'.failed}
       IN /\ logFile'.backups = KeepIdx(L, DOMAIN L \ R)
          /\ \A i \in R : L[i].backup_file \notin DOMAIN files'
          /\ \A i \in E \ R : L[i].backup_file \in DOMAIN files'
          /\ ret'.removed = Cardinality(R)]_vars

\* An eviction that removed an entry and met a file it could not delete.
C1_Witness ==
  /\ ret.op = "createBackup" /\ ret.success
  /\ ret.removed >= 1 /\ ret.failed # {}
  /\ Len(logFile.backups) >= 2

SameArguments(e1, e2) ==
  /\ e1.object_name = e2.object_name /\ e1.object_type = e2.object_type
  /\ e1.schema_name = e2.schema_name /\ e1.operation = e2.operation
  /\ e1.database = e2.database /\ e1.file_hash[2].definition = e2.file_hash[2].definition

\* C2 as stated: a createBackup that follows a createBackup with the same
\* arguments, both successful and without eviction, has another backup id and
\* another content file, and the log it loaded has grown by one entry.
C2_IdenticalCallsDistinctIdsAndFiles ==
  [][(/\ CreateStep /\ ret'.success /\ ~getBackupConfig.auto_cleanup
      /\ ret.op = "createBackup" /\ ret.success
      /\ SameArguments(ret.entry, ret'.entry)) =>
       /\ ret'.backup_id # ret.backup_id
       /\ ret'.backup_file # ret.backup_file
       /\ Len(logFile'.backups) = Len(LoadedBy(ret')) + 1]_vars

\* The entries of L strictly older than days days before t.
OlderIdx(L, t, days) == {i \in DOMAIN L : L[i].timestamp < t - days * TicksPerDay}

\* C3 as stated: a cleanupByAge(days) that returns has removed from the persisted
\* log exactly the entries strictly older than now - days, returned their number,
\* and kept every entry at the cutoff or newer.
C3_RemovesExactlyTheOlder ==
  [][(CleanupStep /\ ~ret'.threw) =>
       LET L == Persisted
           O == OlderIdx(L, now, ret'.days)
       IN /\ logFile'.backups = KeepIdx(L, DOMAIN L \ O)
          /\ ret'.removed = Cardinality(O)]_vars

\* C3 amended: a cleanupByAge(days) that returns has removed, from the log it
\* loaded (the persisted log, or a fresh empty log when the file could not be read
\* or parsed), exactly the entries strictly older than now - days whose content
\* file it deleted or found absent; it returns their number, their files are
\* gone, and every other entry, the ones at the cutoff or newer among them, is
\* kept in its place.
C3_RemovesTheDeletableOlder ==
  [][(CleanupStep /\ ~ret'.threw) =>
       LET L == LoadedBy(ret')
           O == OlderIdx(L, now, ret'.days)
           R == {i \in O : L[i].backup_file \notin ret'.failed}
       IN /\ logFile'.kind = "log"
          /\ logFile'.backups = KeepIdx(L, DOMAIN L \ R)
          /\ ret'.removed = Cardinality(R)
          /\ \A i \in R : L[i].backup_file \notin DOMAIN files'
          /\ \A i \in DOMAIN L \ O : \E j \in DOMAIN logFile'.backups :
               logFile'.backups[j] = L[i]]_vars

\* A cleanupByAge that removed an entry and kept one that is exactly at the cutoff.
C3_Witness ==
  /\ ret.op = "cleanupByAge" /\ ~ret.threw /\ ret.removed >= 1
  /\ logFile.kind = "log"
  /\ \E i \in DOMAIN logFile.backups :
       logFile.backups[i].timestamp = now - ret.days * TicksPerDay

\* The entries a call of createBackup or cleanupByAge worked on once it had
\* loaded the log: for createBackup the new entry is at their head.
WorkedOn(call) ==
  IF call.op = "createBackup" THEN <<call.entry>> \o LoadedBy(call) ELSE LoadedBy(call)

\* The call has come back with the log saved.
Returned(call) == IF call.op = "createBackup" THEN call.success ELSE ~call.threw

Ids(L) == {L[i].id : i \in DOMAIN L}

IsSubSeq(s, t) == \E S \in SUBSET DOMAIN t : s = KeepIdx(t, S)

NewestFirst(L) == \A i, j \in DOMAIN L : i < j => L[i].timestamp >= L[j].timestamp

\* C5: the persisted log is newest first in every state; a createBackup that
\* succeeds leaves its entry, unless evicted at once, at the head of the log; and
\* over every step the log is what it was, the new entry put before it, with
\* some entries left out: the survivors keep their relative order.
C5_NewestFirstOrderKept ==
  /\ [](NewestFirst(Persisted))
  /\ [][/\ (CreateStep /\ ret'.success) =>
              /\ IsSubSeq(Persisted', <<ret'.entry>> \o Persisted)
              /\ ret'.backup_id \in Ids(Persisted') => Persisted'[1] = ret'.entry
        /\ ~(CreateStep /\ ret'.success) => IsSubSeq(Persisted', Persisted)]_vars

\* A createBackup whose entry is at the head, before a survivor, after an
\* eviction took an entry out.
C5_Witness ==
  /\ ret.op = "createBackup" /\ ret.success /\ ret.removed >= 1
  /\ Len(Persisted) >= 2
  /\ Persisted[1] = ret.entry

\* The configuration a call made now runs with.
EffectiveConfig == IF configLoaded THEN currentConfig ELSE cfgFile

\* The entry e of the persisted log is there after the step as it was; is gone.
KeptAsItWas(e) == \E j \in DOMAIN Persisted' : Persisted'[j] = e

Left(e) == e.id \notin Ids(Persisted')

\* The step is a createBackup whose eviction took the i-th entry of the log it
\* worked on; is a cleanupByAge for which that entry was older than the cutoff.
EvictedAt(i) ==
  /\ CreateStep /\ ret'.success /\ EffectiveConfig.auto_cleanup
  /\ i \in Excess(WorkedOn(ret'), ret'.entry.object_name,
                  EffectiveConfig.max_backups_per_object)

AgedAt(i) ==
  /\ CleanupStep /\ ~ret'.threw
  /\ i \in OlderIdx(WorkedOn(ret'), now, ret'.days)

\* C6 as stated: over every operation an entry of the persisted log is still
\* there with all its fields, or it was taken out by createBackup's eviction or
\* by cleanupByAge; the entry of a successful createBackup is in the log or was
\* evicted by that call.
C6_LeavesOnlyByEvictionOrAge ==
  [][/\ (CreateStep \/ CleanupStep) =>
          \A i \in DOMAIN Persisted :
            \/ KeptAsItWas(Persisted[i])
            \/ /\ Left(Persisted[i])
               /\ \/ EvictedAt(i + 1)
                  \/ AgedAt(i)
     /\ (CreateStep /\ ret'.success) =>
          \/ KeptAsItWas(ret'.entry)
          \/ Left(ret'.entry) /\ EvictedAt(1)]_vars

\* C6 amended: over every operation an entry of the persisted log is still there
\* with all its fields, or it is gone for one of these reasons: createBackup's
\* eviction took it; cleanupByAge took it; the call could not read the log file,
\* fell back to a fresh empty log and saved that over it; the save of the log
\* failed midway and left a file that does not parse. The entry of a successful
\* createBackup is in the log or was evicted by that call.
C6_LeavesByEvictionAgeOrLostLog ==
  [][/\ (CreateStep \/ CleanupStep) =>
          \A i \in DOMAIN Persisted :
            \/ KeptAsItWas(Persisted[i])
            \/ /\ Left(Persisted[i])
               /\ \/ ~ret'.readFailed /\ EvictedAt(i + 1)
                  \/ ~ret'.readFailed /\ AgedAt(i)
                  \/ ret'.readFailed /\ Returned(ret')
                  \/ ret'.fault = "save" /\ logFile'.kind = "garbage"
     /\ (CreateStep /\ ret'.success) =>
          \/ KeptAsItWas(ret'.entry)
          \/ Left(ret'.entry) /\ EvictedAt(1)]_vars

\* A createBackup that could not read the log: it saved a log without the earlier
\* entries, and a content file of theirs is left behind without an entry.
C6_Witness ==
  /\ ret.op = "createBackup" /\ ret.success /\ ret.readFailed
  /\ \E path \in DOMAIN files :
       \A i \in DOMAIN Persisted : Persisted[i].backup_file # path

\* C7: a createBackup made while the configuration has backup disabled returns
\* success = false with empty backup_id and backup_file, does not throw, and
\* leaves the content files, the directories and the log as they were.
C7_DisabledDoesNothing ==
  [][(CreateStep /\ ~EffectiveConfig.enabled) =>
       /\ ~ret'.success /\ ret'.backup_id = "" /\ ret'.backup_file = ""
       /\ ~ret'.threw
       /\ files' = files /\ dirs' = dirs /\ logFile' = logFile]_vars

\* A disabled createBackup in a project that has backups from before.
C7_Witness ==
  /\ ret.op = "createBackup" /\ ret.fault = "disabled"
  /\ configLoaded /\ ~currentConfig.enabled
  /\ Persisted # <<>> /\ DOMAIN files # {}

\* What went wrong in a call of createBackup, by the operation that failed.
MetFailure(call) ==
  \/ call.fault \in {"mkdir", "write", "save", "nolist"}
  \/ call.readFailed
  \/ call.failed # {}

IsFailureResult(call) == ~call.success /\ call.backup_id = "" /\ call.backup_file = ""

\* C8 as stated: createBackup does not throw, and a failure creating the
\* directories, writing the content file, loading or saving the log, or deleting
\* a file during eviction makes it return success = false with empty backup_id
\* and backup_file.
C8_AnyFailureGivesFailureResult ==
  [][CreateStep => /\ ~ret'.threw
                   /\ MetFailure(ret') => IsFailureResult(ret')]_vars

\* C8 amended: createBackup does not throw. A failure creating the directories,
\* writing the content file or saving the log, and a log file that parses but
\* holds no entry list, make it return success = false with empty backup_id and
\* backup_file. A log file that cannot be read or parsed, and a content file that
\* cannot be deleted during eviction, do not: the call goes on, with a fresh
\* empty log or with the entry kept, and returns success = true with its id and
\* file unless one of the other failures occurs.
C8_NeverThrowsFailsOnDirsWriteSave ==
  [][CreateStep =>
       /\ ~ret'.threw
       /\ ret'.fault \in {"mkdir", "write", "save", "nolist", "disabled"} =>
            IsFailureResult(ret')
       /\ ret'.fault = "none" =>
            /\ ret'.success
            /\ ret'.backup_id = ret'.entry.id
            /\ ret'.backup_file = ret'.entry.backup_file]_vars

\* A createBackup that could not read the log and could not delete a file it
\* meant to evict, and returned success.
C8_Witness ==
  /\ ret.op = "createBackup" /\ ret.success
  /\ ret.readFailed /\ ret.failed # {}

\* C9: the entry of a successful createBackup carries as file_hash the digest
\* of the text the call wrote to the entry's content file, and that text is
\* the byte-order marker, the header made of the call's arguments, and the
\* definition; the entry is in the log with that file_hash unless evicted.
C9_HashIsOfWrittenContent ==
  [][(CreateStep /\ ret'.success) =>
       /\ ret'.entry.file_hash = <<"sha256", ret'.wrote>>
       /\ ret'.wrote.bom
       /\ ret'.wrote.header.Objeto = ret'.entry.object_name
       /\ ret'.wrote.header.Tipo = ret'.entry.object_type
       /\ ret'.wrote.header.Operacion = ret'.entry.operation
       /\ ret'.wrote.definition \in Definitions
       /\ \A j \in DOMAIN Persisted' :
            Persisted'[j].id = ret'.backup_id =>
              Persisted'[j].file_hash = <<"sha256", ret'.wrote>>
       /\ ret'.backup_file \in DOMAIN files' => files'[ret'.backup_file] = ret'.wrote]_vars

\* A successful createBackup whose entry is in the log and whose content file
\* holds what it wrote.
C9_Witness ==
  /\ ret.op = "createBackup" /\ ret.success
  /\ Persisted # <<>> /\ Persisted[1].id = ret.backup_id
  /\ ret.backup_file \in DOMAIN files
  /\ Persisted[1].file_hash = <<"sha256", files[ret.backup_file]>>

\* Every id createBackup can give out.
AllIds == {<<"bkp", t, random>> : t \in 0..MaxTime, random \in RandomSuffixes}

\* The log a read operation sees: a fresh empty one when the file cannot be read.
Seen(readFails) == IF readFails THEN <<>> ELSE Persisted

Entries(L) == {L[i] : i \in DOMAIN L}

\* The content files that no entry of L refers to.
Orphans(L) == {path \in DOMAIN files : \A i \in DOMAIN L : L[i].backup_file # path}

\* C10: whenever the log file is not one on which the read operations throw,
\* and for every way the read of the log can go: listBackups returns entries of
\* the log only, and without filters and with a limit not below the log's length
\* it returns the whole log, the entries whose content file is missing included;
\* getBackupById returns the log's entry of that id, whether its file is there
\* or not, and null for any other id; getBackupContent returns the text of the
\* file the entry of that id names, without the byte-order marker, and null
\* when the id has no entry or the entry's file is missing; so no operation
\* returns anything for a content file that has no entry.
C10_LogAloneDecidesExistence ==
  \A readFails \in ReadOutcomes :
    (readFails \/ logFile.kind # "nolist") =>
      LET L == Seen(readFails)
      IN /\ \A objectName \in NameFilters, objectType \in TypeFilters, limit \in Limits :
              LET listed == listBackups(readFails, objectName, objectType, limit)
              IN /\ Entries(listed) \subseteq Entries(L)
                 /\ \A k \in DOMAIN listed : listed[k].backup_file \notin Orphans(L)
                 /\ (objectName = NoName /\ objectType = NoType /\ limit >= Len(L)) =>
                      listed = L
         /\ \A i \in DOMAIN L :
              /\ getBackupById(readFails, L[i].id) = L[i]
              /\ L[i].backup_file \notin DOMAIN files =>
                   getBackupContent(readFails, FALSE, L[i].id) = null
              /\ L[i].backup_file \in DOMAIN files =>
                   /\ getBackupContent(readFails, FALSE, L[i].id).bom = FALSE
                   /\ getBackupContent(readFails, FALSE, L[i].id).definition
                        = files[L[i].backup_file].definition
                   /\ getBackupContent(readFails, FALSE, L[i].id).header
                        = files[L[i].backup_file].header
                   /\ getBackupContent(readFails, TRUE, L[i].id) = null
         /\ \A id \in AllIds \ Ids(L) :
              /\ getBackupById(readFails, id) = null
              /\ \A contentReadFails \in BOOLEAN :
                   getBackupContent(readFails, contentReadFails, id) = null

\* A log with an entry whose content file is missing, beside a content file
\* that no entry refers to.
C10_Witness ==
  /\ logFile.kind = "log"
  /\ \E i \in DOMAIN Persisted : Persisted[i].backup_file \notin DOMAIN files
  /\ Orphans(Persisted) # {}

\* C11 as stated: every createBackup runs with the configuration the file holds
\* at the time of the call: it is the disabled result exactly when the file has
\* backups disabled, and the configuration in use after the call is the file's.
C11_UsesConfigurationOfTheCall ==
  [][CreateStep => /\ currentConfig' = cfgFile
                   /\ (ret'.fault = "disabled") = (~cfgFile.enabled)]_vars

\* The log file is missing or holds data that is no log; with readFails, it
\* cannot be read.
NotALog(readFails) == readFails \/ logFile.kind # "log"

\* What C12 says of the read operations, in one state.
ReadsAsEmptyLog ==
  \A readFails \in ReadOutcomes :
    NotALog(readFails) =>
      /\ ~Throws(readFails)
      /\ listBackups(readFails, NoName, NoType, DefaultLimit) = <<>>
      /\ \A id \in AllIds : getBackupById(readFails, id) = null
      /\ getBackupStats(readFails, {}).total_backups = 0

\* C12 as stated: in every state where the log file is missing, unreadable,
\* unparsable or parsable without an entry list, no read operation throws,
\* listBackups returns the empty list, getBackupById returns null and
\* getBackupStats counts zero backups; and a createBackup called in such a state
\* that meets no other failure returns success.
C12_DamagedLogReadsAsEmpty ==
  [][/\ ReadsAsEmptyLog'
     /\ (CreateStep /\ NotALog(ret'.readFailed)
           /\ ret'.fault \notin {"disabled", "mkdir", "write", "save"}) =>
          ret'.success]_vars

\* C13: the number of lines generateDiff(A, B) reports as added is the number
\* generateDiff(B, A) reports as removed, and the number it reports as removed
\* is the number generateDiff(B, A) reports as added.
C13_CountsMirrorUnderSwap ==
  diffResult.called =>
    LET forth == diffResult.value
        back == generateDiff(newText, oldText)
    IN /\ forth.lines_added = back.lines_removed
       /\ forth.lines_removed = back.lines_added

\* A diff of two texts that have a line in common, with more lines added than
\* removed.
C13_Witness ==
  /\ diffResult.called
  /\ diffResult.value.lines_added = 2
  /\ diffResult.value.lines_removed = 1
  /\ Len(split(oldText)) >= 2

\* C15: generateDiff(T, T) is identical with nothing added and nothing removed,
\* and generateDiff(A, B) for different texts is not identical.
C15_IdenticalExactlyForEqualTexts ==
  diffResult.called =>
    /\ oldText = newText =>
         /\ diffResult.value.is_identical
         /\ diffResult.value.lines_added = 0
         /\ diffResult.value.lines_removed = 0
    /\ oldText # newText => ~diffResult.value.is_identical

\* A diff of a text of several lines with itself.
C15_Witness ==
  /\ diffResult.called
  /\ oldText = newText
  /\ Len(split(oldText)) >= 2
  /\ diffResult.value.is_identical

\* The lines at which two lists of lines of one length differ.
DifferAt(xs, ys) == {k \in DOMAIN xs : xs[k] # ys[k]}

\* The lines of a diff text that start with the mark and a space.
Marked(text, mark) ==
  SelectSeq(split(text), LAMBDA l : Len(l) >= 2 /\ l[1] = mark /\ l[2] = " ")

\* C16: for two texts of the same number of lines that differ in exactly one
\* line, generateDiff reports one line added and one removed, is not identical,
\* and its text has exactly one "- " line, which carries the old line, and
\* exactly one "+ " line, which carries the new line.
C16_OneLineChanged ==
  (/\ diffResult.called
   /\ Len(split(oldText)) = Len(split(newText))
   /\ Cardinality(DifferAt(split(oldText), split(newText))) = 1) =>
    LET k == CHOOSE i \in DifferAt(split(oldText), split(newText)) : TRUE
        r == diffResult.value
    IN /\ r.lines_added = 1 /\ r.lines_removed = 1 /\ ~r.is_identical
       /\ Marked(r.diff, "-") = <<(<<"-", " ">> \o split(oldText)[k])>>
       /\ Marked(r.diff, "+") = <<(<<"+", " ">> \o split(newText)[k])>>

\* Three lines against three lines, the middle one changed.
C16_Witness ==
  /\ diffResult.called
  /\ Len(split(oldText)) = 3 /\ Len(split(newText)) = 3
  /\ DifferAt(split(oldText), split(newText)) = {2}
  /\ diffResult.value.lines_added = 1

\* The entries of the diff of two texts, and the mark of an entry.
Entries19 == backtrack(lcs(split(oldText), split(newText)), split(oldText), split(newText),
                       Len(split(oldText)), Len(split(newText)))

MarkOf(type) == CASE type = "unchanged" -> <<" ", " ">>
                  [] type = "added" -> <<"+", " ">>
                  [] type = "removed" -> <<"-", " ">>

\* C19 as stated: for different texts the diff text is the line "--- old", the
\* line "+++ new", and then one line per entry, the entry's mark before its
\* content: 2 + (number of entries) lines.
C19_TwoHeaderLinesThenEntries ==
  (diffResult.called /\ oldText # newText) =>
    LET lines == split(diffResult.value.diff)
    IN /\ Len(lines) = 2 + Len(Entries19)
       /\ lines[1] = <<"-", "-", "-", " ", "o", "l", "d">>
       /\ lines[2] = <<"+", "+", "+", " ", "n", "e", "w">>
       /\ \A k \in DOMAIN Entries19 :
            lines[2 + k] = MarkOf(Entries19[k].type) \o Entries19[k].content

\* C19 amended: for different texts the diff text is the line "--- old", the line
\* "+++ new", an empty line, and then one line per entry, the entry's mark
\* before its content: 3 + (number of entries) lines.
C19_HeaderEmptyLineThenEntries ==
  (diffResult.called /\ oldText # newText) =>
    LET lines == split(diffResult.value.diff)
    IN /\ Len(lines) = 3 + Len(Entries19)
       /\ lines[1] = <<"-", "-", "-", " ", "o", "l", "d">>
       /\ lines[2] = <<"+", "+", "+", " ", "n", "e", "w">>
       /\ lines[3] = <<>>
       /\ \A k \in DOMAIN Entries19 :
            lines[3 + k] = MarkOf(Entries19[k].type) \o Entries19[k].content

\* A diff with an unchanged, an added and a removed entry.
C19_Witness ==
  /\ diffResult.called /\ oldText # newText
  /\ \A type \in {"unchanged", "added", "removed"} :
       \E k \in DOMAIN Entries19 : Entries19[k].type = type

\* C14: for a definition D that does not contain the header's end,
\* extractDefinitionFromBackup applied to the text formatBackupContent makes
\* for D, with its byte-order marker or without, returns D.
C14_ExtractReturnsTheDefinition ==
  (extracted.called /\ occurrences(formatArgs.definition, headerEndMarker) = {}) =>
    extracted.value = formatArgs.definition

\* An extraction from a text that starts with the byte-order marker, whose
\* object name holds the header's end and whose definition holds most of it.
C14_Witness ==
  /\ extracted.called
  /\ backupText.value[1] = UTF8_BOM
  /\ formatArgs.objectName = headerEndMarker
  /\ extracted.value = Tail(headerEndMarker)

\* A step that is a call of compareBackups.
CompareStep == got.op = "none" /\ got'.op = "compareBackups"

\* The entry with an id among those a comparison's k-th reading of the log gave.
SeenBy(call, k) == IF call.reads[k] THEN <<>> ELSE Persisted

HasEntry(L, id) == \E i \in DOMAIN L : L[i].id = id

\* The content file of the entry with the id is there and reading it succeeds.
CanBeRead(L, id, readingFails) ==
  /\ ~readingFails
  /\ \A i \in DOMAIN L : L[i].id = id => L[i].backup_file \in DOMAIN files

\* The cases in which C17 has compareBackups return null.
NullCase(call) ==
  \/ ~HasEntry(SeenBy(call, 1), call.backupIdOld)
  \/ ~CanBeRead(SeenBy(call, 2), call.backupIdOld, call.unread[1])
  \/ /\ call.backupIdNew = current
     /\ call.currentDefinition \in {undefined, string(<<>>)}
  \/ /\ call.backupIdNew # current
     /\ \/ ~HasEntry(SeenBy(call, 3), call.backupIdNew)
        \/ ~CanBeRead(SeenBy(call, 4), call.backupIdNew, call.unread[2])

\* C17 as stated: compareBackups never throws; it returns null when the old or
\* the new id has no entry, when either content file cannot be read, or when the
\* new id is current and no current text is given; otherwise it returns a
\* DiffResult for the old entry's object.
C17_CompareReturnsNullOrDiff ==
  [][CompareStep =>
       /\ ~got'.threw
       /\ NullCase(got') => got'.value = null
       /\ ~NullCase(got') =>
            /\ got'.value # null
            /\ got'.value.old_version.backup_id = got'.backupIdOld
            /\ got'.value.new_version.backup_id = got'.backupIdNew
            /\ got'.value.is_identical = (got'.value.lines_added + got'.value.lines_removed = 0)]_vars

\* A step that is a call of listBackups.
ListStep == got.op = "none" /\ got'.op = "listBackups"

\* The indices of the entries of L that the filters of a call take.
Wanted(L, call) ==
  {i \in DOMAIN L :
     /\ call.objectName # NoName => EqualIgnoringCase(L[i].object_name, call.objectName)
     /\ call.objectType # NoType =>
          \/ includes(toUpperCase(L[i].object_type), toUpperCase(call.objectType))
          \/ includes(toUpperCase(call.objectType), toUpperCase(L[i].object_type))}

\* The first k of them, in the order of L.
FirstWanted(L, call, k) ==
  KeepIdx(L, {i \in Wanted(L, call) : Cardinality({j \in Wanted(L, call) : j <= i}) <= k})

\* C18 as stated: listBackups(name, type, limit) returns, in the order of the
\* log, the first limit entries that the name and type filters take, an omitted
\* filter taking every entry, and never more than limit entries.
C18_ListsTheFirstMatches ==
  [][ListStep =>
       /\ got'.value = FirstWanted(LoadedBy(got'), got', got'.limit)
       /\ Len(got'.value) <= got'.limit]_vars

\* A step that is a call of one of the tools that change the database.
ToolStep == tool'.n = tool.n + 1

\* C20: a statement reaches the database only in a call of alterProcedure,
\* alterFunction, alterView or dropObject, after the createBackup of that call
\* has returned success, and one statement per call; a call whose createBackup
\* returned a failure, backups disabled included, fails with BACKUP_FAILED and
\* sends no statement.
C20_StatementOnlyAfterBackup ==
  [][/\ executed' # executed =>
          /\ ToolStep
          /\ CreateStep
          /\ ret'.success
          /\ Len(executed') = Len(executed) + 1
          /\ SubSeq(executed', 1, Len(executed)) = executed
          /\ executed'[Len(executed')].after = ret'.n
          /\ ret'.entry.object_name = executed'[Len(executed')].object_name
     /\ (ToolStep /\ CreateStep /\ ~ret'.success) =>
          /\ tool'.code = "BACKUP_FAILED"
          /\ executed' = executed]_vars

\* A statement was sent after a backup, and a later dropObject, called with
\* backups disabled or failing, ended in BACKUP_FAILED.
C20_Witness ==
  /\ Len(executed) = 1
  /\ tool.name = "dropObject"
  /\ tool.code = "BACKUP_FAILED"
  /\ ~ret.success
  /\ ret.n = 2

\* The entries of a diff text, read off its lines after the head: the mark of
\* each line and what follows the mark and the space.
Emitted(text) ==
  LET lines == split(text)
  IN [k \in 1..(Len(lines) - 3) |->
        [mark |-> lines[3 + k][1], content |-> SubSeq(lines[3 + k], 3, Len(lines[3 + k]))]]

\* The contents of the entries with a mark in the set, in order.
ContentsOf(entries, marks) ==
  LET taken == SelectSeq(entries, LAMBDA e : e.mark \in marks)
  IN [k \in DOMAIN taken |-> taken[k].content]

\* The length of a longest common subsequence of two sequences of lines.
LcsLength(xs, ys) ==
  LET common == {S \in SUBSET DOMAIN xs : IsSubSeq(KeepIdx(xs, S), ys)}
  IN CHOOSE l \in 0..Len(xs) :
       /\ \E S \in common : Cardinality(S) = l
       /\ \A S \in common : Cardinality(S) <= l

\* C28: for different texts A and B, the unchanged and removed entries of the
\* diff, in order, are the lines of A, the unchanged and added entries are the
\* lines of B, and the unchanged entries are as many as a longest common
\* subsequence of the two line sequences is long.
C28_EntriesCoverBothTexts ==
  (diffResult.called /\ oldText # newText) =>
    LET entries == Emitted(diffResult.value.diff)
    IN /\ \A k \in DOMAIN entries : entries[k].mark \in {" ", "+", "-"}
       /\ ContentsOf(entries, {" ", "-"}) = <<>> \o split(oldText)
       /\ ContentsOf(entries, {" ", "+"}) = <<>> \o split(newText)
       /\ Len(ContentsOf(entries, {" "})) = LcsLength(split(oldText), split(newText))

\* A diff with two unchanged lines, an added and a removed one.
C28_Witness ==
  /\ diffResult.called /\ oldText # newText
  /\ LcsLength(split(oldText), split(newText)) = 2
  /\ diffResult.value.lines_added >= 1
  /\ diffResult.value.lines_removed >= 1

\* The score of the cell (i, j): the length of a longest common subsequence of
\* the first i lines of xs and the first j lines of ys.
Score(xs, ys, i, j) == LcsLength(SubSeq(xs, 1, i), SubSeq(ys, 1, j))

\* The reference procedure of C29 from the cell (i, j), in the order it emits.
RECURSIVE ReferenceEmits(_, _, _, _)
ReferenceEmits(xs, ys, i, j) ==
  IF i = 0 /\ j = 0 THEN <<>>
  ELSE IF i > 0 /\ j > 0 /\ xs[i] = ys[j]
  THEN <<[mark |-> " ", content |-> xs[i]]>> \o ReferenceEmits(xs, ys, i - 1, j - 1)
  ELSE IF j > 0 /\ (i = 0 \/ Score(xs, ys, i, j - 1) >= Score(xs, ys, i - 1, j))
  THEN <<[mark |-> "+", content |-> ys[j]]>> \o ReferenceEmits(xs, ys, i, j - 1)
  ELSE <<[mark |-> "-", content |-> xs[i]]>> \o ReferenceEmits(xs, ys, i - 1, j)

Reversed(s) == [k \in 1..Len(s) |-> s[Len(s) - k + 1]]

\* C29: the entries of the diff of two different texts are those the reference
\* procedure emits from (m, n), reversed: unchanged and a diagonal step for
\* equal trailing lines, else added and a step left if the left score is at
\* least the score above or the row index is 0, else removed and a step up.
C29_BacktrackIsTheReference ==
  (diffResult.called /\ oldText # newText) =>
    Emitted(diffResult.value.diff)
      = Reversed(ReferenceEmits(split(oldText), split(newText),
                                Len(split(oldText)), Len(split(newText))))

\* A diff in which the two scores were equal and the added entry was taken: the
\* old text is the line a, the new one the line b.
C29_Witness ==
  /\ diffResult.called
  /\ oldText = <<"a">> /\ newText = <<"b">>
  /\ Emitted(diffResult.value.diff)
       = <<[mark |-> "-", content |-> <<"a">>], [mark |-> "+", content |-> <<"b">>]>>

\* A step that is an iteration of the loop of backtrack.
IterationStep == loop.at = "while" /\ loop'.at = "while" /\ loop'.iterations = loop.iterations + 1

\* C30: every iteration of the loop of backtrack takes one of the three
\* branches and decreases the row index or the column index; there are at most
\* m + n iterations; and a loop that was entered is left, at (0, 0), with what
\* the table walk of generateDiff gives.
C30_BacktrackTerminates ==
  /\ [][IterationStep =>
          /\ loop'.took \in {"unchanged", "added", "removed"}
          /\ loop'.currI <= loop.currI /\ loop'.currJ <= loop.currJ
          /\ loop'.currI + loop'.currJ < loop.currI + loop.currJ
          /\ loop'.currI >= 0 /\ loop'.currJ >= 0
          /\ loop'.iterations <= Len(split(oldText)) + Len(split(newText))]_vars
  /\ (loop.at = "while") ~>
       (/\ loop.at = "returned"
        /\ loop.currI = 0 /\ loop.currJ = 0
        /\ Reversed(loop.tempResult) = Entries19)

\* A loop that was left after m + n iterations, with two lines on each side.
C30_Witness ==
  /\ loop.at = "returned"
  /\ Len(split(oldText)) = 2 /\ Len(split(newText)) = 2
  /\ loop.iterations = 4

\* The backup the last call returned is found by its id, and the definition
\* extracted from its content is the one the call was given.
ReturnedBackupIsFound ==
  /\ ~Throws(FALSE)
  /\ getBackupById(FALSE, ret.backup_id) # null
  /\ getBackupById(FALSE, ret.backup_id).id = ret.backup_id
  /\ getBackupContent(FALSE, FALSE, ret.backup_id) # null
  /\ definitionOf(getBackupContent(FALSE, FALSE, ret.backup_id)) = ret.wrote.definition

\* C24 as stated: after a createBackup that returned success with the id i,
\* under any configuration, getBackupById(i) returns an entry with that id and
\* getBackupContent(i) a content whose extracted definition is the one passed.
C24_SuccessfulBackupIsRetrievable ==
  [][(CreateStep /\ ret'.success) => ReturnedBackupIsFound']_vars

\* C25 as stated: when createBackup returns success = false, the persisted log
\* and the content files, with their contents, are what they were before the
\* call: no new content file is left behind and no file is deleted.
C25_FailedCreateChangesNothing ==
  [][(CreateStep /\ ~ret'.success) => (logFile' = logFile /\ files' = files)]_vars

\* The entries of the persisted log that belong to other objects than X.
OthersThan(X) ==
  {i \in DOMAIN Persisted : ~EqualIgnoringCase(Persisted[i].object_name, X)}

\* The step leaves the entries of the other objects than X, and their content
\* files, as they were.
LeavesOthersThan(X) ==
  \A i \in OthersThan(X) :
    /\ \E j \in DOMAIN Persisted' : Persisted'[j] = Persisted[i]
    /\ Persisted[i].backup_file \in DOMAIN files =>
         /\ Persisted[i].backup_file \in DOMAIN files'
         /\ files'[Persisted[i].backup_file] = files[Persisted[i].backup_file]

\* C26 as stated: createBackup for the object X never removes or changes a log
\* entry whose object_name differs from X ignoring case, and never deletes or
\* overwrites the content file of such an entry. A successful call names its
\* object in the entry it made; a failed call returns no name and is held to the
\* statement for one of the objects it can have been called for.
C26_OtherObjectsUntouched ==
  [][CreateStep =>
       IF ret'.success THEN LeavesOthersThan(ret'.entry.object_name)
       ELSE \E X \in PunctuatedNames : LeavesOthersThan(X)]_vars

RestoreStep == tool'.n = tool.n + 1 /\ tool'.name = "restoreFromBackup"

\* C21 as stated: whenever restoreFromBackup sends the restore statement for an
\* object that exists in the database, a RESTORE backup of the object's current
\* definition has been created successfully first, and its id is returned as
\* new_backup_id.
C21_RestoreOnlyAfterBackup ==
  [][(RestoreStep /\ executed' # executed /\ tool'.existed) =>
       /\ CreateStep
       /\ ret'.success
       /\ ret'.entry.operation = "RESTORE"
       /\ ret'.entry.object_name = executed'[Len(executed')].object_name
       /\ ret'.wrote.definition \in DatabaseDefinitions
       /\ executed'[Len(executed')].after = ret'.n
       /\ tool'.code = "OK" => tool'.backup_id = ret'.backup_id]_vars

\* The backup the tool restored from is in the log, with its content.
RestoredFromIsKept ==
  /\ ~Throws(FALSE)
  /\ getBackupById(FALSE, tool.restored) # null
  /\ getBackupContent(FALSE, FALSE, tool.restored) # null

\* C27 as stated: after restoreFromBackup(id) succeeds, the backup id it
\* restored from is still in the log and its content can still be read: the
\* backup made before the restore never evicts the backup being restored.
C27_RestoredBackupIsKept ==
  [][(RestoreStep /\ tool'.code = "OK") => RestoredFromIsKept']_vars

\* The writer w ends its call with the save of the log.
SaveStepOf(w) == writers[w].at = "loaded" /\ writers'[w].at = "returned"

\* The writer v has returned success with an entry that is not in the list l.
ReturnedUnseenIn(v, l) ==
  /\ writers[v].at = "returned"
  /\ writers[v].success
  /\ \A i \in DOMAIN l : l[i].id # writers[v].backupId

HoldsEntryOf(l, w) == \E i \in DOMAIN l : l[i].id = writers[w].backupId

\* C22: two createBackup calls of separate writers can interleave so that both
\* return success and the saved log holds only one of the two new entries: a
\* writer that saves successfully writes the list it loaded with its own entry,
\* so the entry of a writer that saved successfully after that load is not in
\* the saved log.
C22_OverlappingWritersLoseAnUpdate ==
  [][\A w \in Writers :
       (SaveStepOf(w) /\ writers'[w].success) =>
         /\ Persisted' = writers'[w].backups
         /\ \A v \in Writers \ {w} :
              ReturnedUnseenIn(v, writers[w].backups) => ~HoldsEntryOf(Persisted', v)]_vars

\* Both writers loaded the log, evicted nothing and returned success, and the
\* saved log holds one entry.
C22_Witness ==
  /\ \A w \in Writers : /\ writers[w].at = "returned"
                        /\ writers[w].success
                        /\ ~writers[w].readFailed
                        /\ writers[w].removed = 0
  /\ ~getBackupConfig.auto_cleanup
  /\ Len(Persisted) = 1

\* The calls that are between their first step and their return.
Inside == {w \in Writers : writers[w].at \in {"written", "loaded"}}

AllReturned == \A w \in Writers : writers[w].at = "returned"

NothingEvicted == \A w \in Writers : writers[w].removed = 0

EverySuccessfulEntryIsInTheLog ==
  \A w \in Writers : writers[w].success => HoldsEntryOf(Persisted, w)

====
